---- MODULE Spec2Model ----
(***************************************************************************)
(* A model of the layered-encryption classes of quantum-cryption:          *)
(*   AES256            src/src/lib/crypto/aes256.ts                        *)
(*   QES512            src/src/lib/crypto/qes512.ts                        *)
(*   HybridEncryption  src/src/lib/crypto/hybrid.ts                        *)
(*   QES512 (mock)     src/test-crypto.js                                  *)
(* The crypto-js primitives (AES-CBC/PKCS7, PBKDF2, WordArray.random, the  *)
(* Hex/Utf8/Base64 encoders) are modelled symbolically: a ciphertext is    *)
(* the term "message wrapped by (key, iv)", a key is the term              *)
(* "PBKDF2 of (password, salt, keySize, iterations)".                      *)
(***************************************************************************)
EXTENDS Integers, Sequences, FiniteSets, TLC

(***************************************************************************)
(* Bounds of the model and the inputs the operations are called with.      *)
(***************************************************************************)
MaxLayers == 4

Plaintexts == {"", "A"}

Passwords == {"", "pw", "px"}

\* what the random source returns to the successive WordArray.random calls of
\* one encrypt or decrypt call (hex of the random bytes), repeated cyclically
RandomStreams == { << "r1" >>, << "r2" >>, << "r1", "r2", "r2" >> }

\* the k-th WordArray.random of a call, k counted from 1
Draw(stream, k) == stream[((k - 1) % Len(stream)) + 1]

LayerCounts == (-1) .. MaxLayers

\* the passes a loop over 0 .. n-1 makes
Max0(n) == IF n > 0 THEN n ELSE 0

\* how many values the random source hands out in a run of successive calls
MaxDraws == 8

\* the longest plaintext (UTF-8 bytes) whose sizes are followed
MaxLength == 40

\* the longest file carried, in whole chunks (a few bytes more are allowed)
MaxChunks == 2

\* how many entries are added to the Password Manager in one behaviour
MaxEntries == 2

\* the longest file list of the File Vault
MaxFiles == 2

Variants == {"AES256", "QES512", "Hybrid", "Mock"}

(***************************************************************************)
(* Program constants.                                                      *)
(***************************************************************************)
SaltBytes == 32

IvBytes == 16

Iterations == 100000

BytesPerWord == 4

\* config.blockSize: the AES block, in bytes
BlockBytes == 16

\* const chunkSize of processFiles
chunkSize == 8192

\* private config of the three classes (keySize in bytes, as written)
AES256_config == [keySize |-> 32, blockSize |-> 16, rounds |-> 14]

QES512_config == [keySize |-> 64, blockSize |-> 16, rounds |-> 16]

Mock_config == [keySize |-> 32, blockSize |-> 16, rounds |-> 14]

(***************************************************************************)
(* crypto-js values.                                                       *)
(*  WordArray  [src, enc, sigBytes]: sigBytes bytes; src names the bytes,  *)
(*             enc = "raw" (the bytes themselves) or "utf8hex" (the UTF-8  *)
(*             bytes of the hex text of src).                              *)
(*  hex text   [hex, chars]: a JS string of hex digits.                    *)
(*  JS string that carries IVs: a sequence of hex texts and "|" tokens.    *)
(***************************************************************************)
WordArray_random(r, nBytes) == [src |-> r, enc |-> "raw", sigBytes |-> nBytes]

\* WordArray.toString() / toString(CryptoJS.enc.Hex) of random bytes
Hex_stringify(wa) == [hex |-> wa.src, chars |-> 2 * wa.sigBytes]

\* CryptoJS.enc.Hex.parse of a hex text
Hex_parse(h) == [src |-> h.hex, enc |-> "raw", sigBytes |-> h.chars \div 2]

\* CryptoJS.enc.Utf8.parse of a hex text: one byte per character
Utf8_parse(h) == [src |-> h.hex, enc |-> "utf8hex", sigBytes |-> h.chars]

Bar == [hex |-> "|", chars |-> 1]

EmptyHex == [hex |-> "", chars |-> 0]

\* the JS value undefined where a string of IVs is expected
Undefined == << [hex |-> "undefined", chars |-> -1] >>

NaNWords == [src |-> "NaN", enc |-> "raw", sigBytes |-> 0]

\* variant of join: the hex texts follow one another with nothing in between
Join_concat(arr) == arr

\* Array.prototype.join('|') on an array of hex texts
RECURSIVE Join(_)
Join(arr) ==
  IF arr = << >> THEN << >>
  ELSE IF Len(arr) = 1 THEN << arr[1] >>
  ELSE << arr[1], Bar >> \o Join(Tail(arr))

\* String.prototype.split('|'): an array of JS strings (each a token sequence)
RECURSIVE SplitFrom(_, _)
SplitFrom(str, cur) ==
  IF str = << >> THEN << cur >>
  ELSE IF Head(str) = Bar THEN << cur >> \o SplitFrom(Tail(str), << >>)
  ELSE SplitFrom(Tail(str), Append(cur, Head(str)))

Split(str) == SplitFrom(str, << >>)

\* arr[i] of a JS array, i counted from 0; undefined outside the array
At(arr, i) == IF i >= 0 /\ i < Len(arr) THEN arr[i + 1] ELSE Undefined

\* CryptoJS.enc.Hex.parse applied to a JS string argument `iv`
ParseIv(iv) ==
  IF iv = << >> THEN Hex_parse(EmptyHex)
  ELSE IF Len(iv) = 1 THEN Hex_parse(iv[1])
  ELSE NaNWords

(***************************************************************************)
(* Text values: a JS string is a base text s under a stack w of wraps,     *)
(* innermost first.  Wrap "aes": the Base64 text of AES-CBC(key, iv) of    *)
(* the UTF-8 bytes of what is below.  Wrap "hex": the hex text of the      *)
(* UTF-8 bytes of what is below.                                           *)
(***************************************************************************)
NoKey == [keySize |-> 0, pwd |-> "", salt |-> NaNWords, iterations |-> 0]

Str(t) == [s |-> t, w |-> << >>]

EmptyStr == Str("")

\* text that is not any text the program produced
Junk == Str("<junk>")

AesWrap(key, iv) == [k |-> "aes", iv |-> iv, key |-> key]

HexWrap == [k |-> "hex", iv |-> NaNWords, key |-> NoKey]

Wrapped(x, wrap) == [s |-> x.s, w |-> Append(x.w, wrap)]

Top(x) == x.w[Len(x.w)]

Inner(x) == [s |-> x.s, w |-> SubSeq(x.w, 1, Len(x.w) - 1)]

(***************************************************************************)
(* CryptoJS.PBKDF2(password, salt, {keySize (words), iterations}).  A JS   *)
(* string given as salt is UTF-8 parsed by crypto-js.                      *)
(***************************************************************************)
PBKDF2(password, salt, keySizeWords, iterations) ==
  [keySize |-> keySizeWords, pwd |-> password,
   salt |-> IF "hex" \in DOMAIN salt THEN Utf8_parse(salt) ELSE salt, iterations |-> iterations]

KeyBytes(key) == key.keySize * BytesPerWord

\* key.toString(CryptoJS.enc.Hex) and CryptoJS.enc.Hex.parse(key)
KeyToHex(key) == [hexOf |-> key]

KeyFromHex(h) == h.hexOf

(***************************************************************************)
(* CryptoJS.AES.encrypt(message, key, {iv, CBC, Pkcs7}).toString()         *)
(***************************************************************************)
AES_encrypt(message, key, iv) == Wrapped(message, AesWrap(key, iv))

(***************************************************************************)
(* CryptoJS.AES.decrypt(ciphertext, key, {iv, CBC, Pkcs7}): the decrypted  *)
(* bytes as [u8, str]: the UTF-8 bytes of str when u8, bytes that are not  *)
(* valid UTF-8 otherwise.  With the key and IV of the outermost layer the  *)
(* result is the layer's message.  Anything else leaves bytes that Pkcs7   *)
(* unpadding cuts at an arbitrary length: nothing, valid UTF-8 or not.     *)
(***************************************************************************)
Genuine(ciphertext, key, iv) ==
  /\ ciphertext.w # << >>
  /\ Top(ciphertext) = AesWrap(key, iv)

Garbage == { [str |-> EmptyStr, u8 |-> TRUE],
             [str |-> Junk, u8 |-> TRUE],
             [str |-> Junk, u8 |-> FALSE] }

AES_decrypt(ciphertext, key, iv) ==
  IF ciphertext = EmptyStr THEN { [str |-> EmptyStr, u8 |-> TRUE] }
  ELSE IF Genuine(ciphertext, key, iv) THEN { [str |-> Inner(ciphertext), u8 |-> TRUE] }
  ELSE Garbage

\* decrypted.toString(CryptoJS.enc.Utf8): throws on malformed UTF-8
MalformedUtf8 == << "Malformed UTF-8", " data" >>

\* decrypted.toString(): the default encoder is Hex
ToStringHex(bytes) ==
  IF bytes.str = EmptyStr /\ bytes.u8 THEN EmptyStr ELSE Wrapped(bytes.str, HexWrap)

\* String.prototype.includes on a message built from parts
Includes(message, part) == \E i \in 1 .. Len(message) : message[i] = part

(***************************************************************************)
(* What a call leaves behind.  An encrypt call yields the object it        *)
(* returns (`fields` names the properties the object has) and a trace of   *)
(* its random draws and cipher passes.  A decrypt call yields a set of     *)
(* possible outcomes, each a return or a throw with its passes.            *)
(***************************************************************************)
Pass(layer, password, key, iv, input, output, genuine, cipher) ==
  [iv |-> iv, key |-> key, password |-> password, layer |-> layer, input |-> input,
   output |-> output, genuine |-> genuine, cipher |-> cipher]

Return(plaintext, passes) ==
  [message |-> << >>, plaintext |-> plaintext, passes |-> passes, status |-> "return"]

Throw(message, passes) ==
  [message |-> message, plaintext |-> EmptyStr, passes |-> passes, status |-> "throw"]

TypeErrorMessage == << "Cannot read properties of undefined" >>

(***************************************************************************)
(* State.                                                                  *)
(*  layers         this.layers of the HybridEncryption instance            *)
(*  encryptedData  what the caller keeps of the last encrypt call: the     *)
(*                 returned object, with the call's arguments and trace    *)
(*  lastCall       the most recent call and, for a decrypt, its outcome    *)
(***************************************************************************)
VARIABLES layers, encryptedData, lastCall

cipherVars == << layers, encryptedData, lastCall >>

(***************************************************************************)
(* State of a run of successive encrypt calls.                             *)
(*  drawn     how many values the random source has handed out; the k-th   *)
(*            value is unlike every other (a source that does not repeat)  *)
(*  returned  the last two encrypt calls, oldest first: arguments, the     *)
(*            returned object and the salts and IVs the call drew          *)
(***************************************************************************)
VARIABLES drawn, returned

successiveVars == << drawn, returned >>

(***************************************************************************)
(* State of the pages that keep envelopes in files (File Vault, Password   *)
(* Manager).                                                               *)
(*  download  the .encrypted file the last encryption wrote: the parsed    *)
(*            JSON text (`fields` names its properties), with what the     *)
(*            model needs of the encrypt call that made it                 *)
(*  report    what the last decryption of an uploaded file did             *)
(***************************************************************************)
VARIABLES download, report

vaultVars == << download, report >>

(***************************************************************************)
(* State of the two size and byte computations followed step by step.      *)
(*  sizes     the sizes of one layered encryption: the plaintext's UTF-8   *)
(*            length and, per pass made, the sizes of its input, of its    *)
(*            ciphertext and of the text passed on                         *)
(*  carriage  one file on its way through the File Vault's conversions:    *)
(*            which file it is (length and pattern of its bytes), the      *)
(*            stage reached and the data at that stage: bytes, binary      *)
(*            string (character codes), Base64 text (digit values, 64 for  *)
(*            '='), binary string again, bytes again                       *)
(***************************************************************************)
VARIABLES sizes, carriage

(***************************************************************************)
(* State of the Password Manager page.                                     *)
(*  manager     the component's state: entries, masterPassword, newEntry,  *)
(*              isEncrypted, uploadedFile, isProcessingFile; `pending`     *)
(*              (what an uploadAndDecryptPasswords call that awaits the    *)
(*              file's text has captured) and `now` (the clock, in ticks)  *)
(*  managerLog  the handler that ran last and how it ended; empty after a  *)
(*              change of an input field                                   *)
(***************************************************************************)
VARIABLES manager, managerLog

managerVars == << manager, managerLog >>

(***************************************************************************)
(* State of the File Vault page.                                           *)
(*  fileVault  the component's state: files, password, isEncrypting,       *)
(*             isDecrypting, results                                       *)
(*  run        the processFiles call under way, suspended at an await:     *)
(*             the password and the two file lists it captured, the loop   *)
(*             it is in and the index of the file awaited, its             *)
(*             encryptionResults; and what the last call did to each file  *)
(***************************************************************************)
VARIABLES fileVault, run

fileVaultVars == << fileVault, run >>

(***************************************************************************)
(* What the last call of CryptoAnalyzer returned: a sequence of analyses.  *)
(***************************************************************************)
VARIABLES analysis

pageVars == << managerVars, fileVaultVars, analysis >>

vars == << cipherVars, successiveVars, vaultVars, sizes, carriage, pageVars >>

\* what the steps of one area leave alone
outsideCipher == << successiveVars, vaultVars, sizes, carriage, pageVars >>

outsideSuccessive == << vaultVars, sizes, carriage, pageVars >>

outsideVault == << cipherVars, successiveVars, sizes, carriage, pageVars >>

outsideSizes == << cipherVars, successiveVars, vaultVars, carriage, pageVars >>

outsideCarriage == << cipherVars, successiveVars, vaultVars, sizes, pageVars >>

outsideManager ==
  << cipherVars, successiveVars, report, sizes, carriage, fileVaultVars, analysis >>

outsideFileVault ==
  << cipherVars, successiveVars, vaultVars, sizes, carriage, managerVars, analysis >>

outsideAnalyzer ==
  << cipherVars, successiveVars, vaultVars, sizes, carriage, managerVars, fileVaultVars >>

(***************************************************************************)
(* class AES256                                                            *)
(***************************************************************************)
\* variant of generateKey: config.keySize handed to PBKDF2 as a count of words
AES256_generateKey_words(password, salt) ==
  KeyToHex(PBKDF2(password, salt, AES256_config.keySize, Iterations))

\* variant of generateKey: the layer count the instance is configured with at
\* the time of the call goes into the derivation
AES256_generateKey_perInstance(password, salt) ==
  KeyToHex(PBKDF2(password \o ToString(layers), salt,
                  AES256_config.keySize \div 4, Iterations))

\* generateKey passes the hex text `salt`, not saltBytes, to PBKDF2
AES256_generateKey(password, salt) ==
  KeyToHex(PBKDF2(password, salt, AES256_config.keySize \div 4, Iterations))

AES256_encrypt(plaintext, password, rSalt, rIv) ==
  LET salt == Hex_stringify(WordArray_random(rSalt, SaltBytes))
      key == AES256_generateKey(password, salt)
      iv == WordArray_random(rIv, IvBytes)
      ciphertext == AES_encrypt(plaintext, KeyFromHex(key), iv)
  IN [result |-> [keySize |-> AES256_config.keySize * 8, iv |-> << Hex_stringify(iv) >>,
                  salt |-> EmptyHex, ciphertext |-> ciphertext, layers |-> 0,
                  algorithm |-> "AES-256",
                  fields |-> {"ciphertext", "iv", "algorithm", "keySize"}],
      trace |-> [passes |-> << Pass(0, password, KeyFromHex(key), iv,
                                    plaintext, ciphertext, TRUE, TRUE) >>,
                 salts |-> << Hex_parse(salt) >>, ivs |-> << iv >>]]

\* decrypt draws a new random salt; one possible outcome per decrypted bytes
AES256_decrypt(ciphertext, password, iv, layer, rSalt) ==
  LET salt == Hex_stringify(WordArray_random(rSalt, SaltBytes))
      key == KeyFromHex(AES256_generateKey(password, salt))
  IN IF iv = Undefined
     THEN { Throw(TypeErrorMessage,
                  << Pass(layer, password, key, NaNWords, ciphertext, EmptyStr, FALSE, FALSE) >>) }
     ELSE LET ivBytes == ParseIv(iv)
              ok == Genuine(ciphertext, key, ivBytes)
          IN { IF d.u8
               THEN Return(d.str, << Pass(layer, password, key, ivBytes, ciphertext, d.str, ok, TRUE) >>)
               ELSE Throw(MalformedUtf8,
                          << Pass(layer, password, key, ivBytes, ciphertext, d.str, ok, TRUE) >>)
               : d \in AES_decrypt(ciphertext, key, ivBytes) }

(***************************************************************************)
(* class QES512                                                            *)
(***************************************************************************)
QES512_generateKey(password, salt) ==
  KeyToHex(PBKDF2(password, Hex_parse(salt), QES512_config.keySize \div 4, Iterations))

\* variant of encrypt: the second layer is encrypted under an IV of its own
QES512_encrypt_ivPerLayer(plaintext, password, rSalt, rIv) ==
  LET salt == Hex_stringify(WordArray_random(rSalt, SaltBytes))
      key1 == QES512_generateKey(password, salt)
      key2 == QES512_generateKey(password \o "layer2", salt)
      iv == WordArray_random(rIv, IvBytes)
      iv2 == WordArray_random(rSalt, IvBytes)
      first == AES_encrypt(plaintext, KeyFromHex(key1), iv)
      ciphertext == AES_encrypt(first, KeyFromHex(key2), iv2)
  IN [result |-> [keySize |-> QES512_config.keySize * 8, iv |-> << Hex_stringify(iv) >>,
                  salt |-> EmptyHex, ciphertext |-> ciphertext, layers |-> 0,
                  algorithm |-> "QES-512 (Experimental)",
                  fields |-> {"ciphertext", "iv", "algorithm", "keySize"}],
      trace |-> [passes |-> << Pass(0, password, KeyFromHex(key1), iv,
                                    plaintext, first, TRUE, TRUE),
                               Pass(1, password \o "layer2", KeyFromHex(key2), iv2,
                                    first, ciphertext, TRUE, TRUE) >>,
                 salts |-> << Hex_parse(salt) >>, ivs |-> << iv >>]]

\* variant of encrypt: the second key is derived with a salt of its own
QES512_encrypt_saltPerKey(plaintext, password, rSalt, rIv) ==
  LET salt == Hex_stringify(WordArray_random(rSalt, SaltBytes))
      salt2 == Hex_stringify(WordArray_random(rIv, SaltBytes))
      key1 == QES512_generateKey(password, salt)
      key2 == QES512_generateKey(password \o "layer2", salt2)
      iv == WordArray_random(rIv, IvBytes)
      first == AES_encrypt(plaintext, KeyFromHex(key1), iv)
      ciphertext == AES_encrypt(first, KeyFromHex(key2), iv)
  IN [result |-> [keySize |-> QES512_config.keySize * 8, iv |-> << Hex_stringify(iv) >>,
                  salt |-> EmptyHex, ciphertext |-> ciphertext, layers |-> 0,
                  algorithm |-> "QES-512 (Experimental)",
                  fields |-> {"ciphertext", "iv", "algorithm", "keySize"}],
      trace |-> [passes |-> << Pass(0, password, KeyFromHex(key1), iv,
                                    plaintext, first, TRUE, TRUE),
                               Pass(1, password \o "layer2", KeyFromHex(key2), iv,
                                    first, ciphertext, TRUE, TRUE) >>,
                 salts |-> << Hex_parse(salt) >>, ivs |-> << iv >>]]

QES512_encrypt(plaintext, password, rSalt, rIv) ==
  LET salt == Hex_stringify(WordArray_random(rSalt, SaltBytes))
      key1 == QES512_generateKey(password, salt)
      key2 == QES512_generateKey(password \o "layer2", salt)
      iv == WordArray_random(rIv, IvBytes)
      first == AES_encrypt(plaintext, KeyFromHex(key1), iv)
      intermediate == first
      ciphertext == AES_encrypt(intermediate, KeyFromHex(key2), iv)
  IN [result |-> [keySize |-> QES512_config.keySize * 8, iv |-> << Hex_stringify(iv) >>,
                  salt |-> EmptyHex, ciphertext |-> ciphertext, layers |-> 0,
                  algorithm |-> "QES-512 (Experimental)",
                  fields |-> {"ciphertext", "iv", "algorithm", "keySize"}],
      trace |-> [passes |-> << Pass(0, password, KeyFromHex(key1), iv,
                                    plaintext, first, TRUE, TRUE),
                               Pass(1, password \o "layer2", KeyFromHex(key2), iv,
                                    intermediate, ciphertext, TRUE, TRUE) >>,
                 salts |-> << Hex_parse(salt) >>, ivs |-> << iv >>]]

QES512_decrypt(ciphertext, password, iv, rSalt) ==
  LET salt == Hex_stringify(WordArray_random(rSalt, SaltBytes))
      key1 == KeyFromHex(QES512_generateKey(password, salt))
      key2 == KeyFromHex(QES512_generateKey(password \o "layer2", salt))
      ivBytes == ParseIv(iv)
      P2(d) == Pass(1, password \o "layer2", key2, ivBytes, ciphertext, d.str,
                    Genuine(ciphertext, key2, ivBytes), TRUE)
      P1(x, d) == Pass(0, password, key1, ivBytes, x, d.str,
                       Genuine(x, key1, ivBytes), TRUE)
  IN UNION {
       IF ~ d2.u8 THEN { Throw(MalformedUtf8, << P2(d2) >>) }
       ELSE { IF d1.u8
              THEN Return(d1.str, << P2(d2), P1(d2.str, d1) >>)
              ELSE Throw(MalformedUtf8, << P2(d2), P1(d2.str, d1) >>)
              : d1 \in AES_decrypt(d2.str, key1, ivBytes) }
       : d2 \in AES_decrypt(ciphertext, key2, ivBytes) }

(***************************************************************************)
(* class QES512 of test-crypto.js (the mock the test suite runs)           *)
(***************************************************************************)
Mock_generateKey(password, salt) ==
  KeyToHex(PBKDF2(password, salt, Mock_config.keySize, Iterations))

Mock_encrypt(plaintext, password, rSalt, rIv) ==
  LET salt == Hex_stringify(WordArray_random(rSalt, SaltBytes))
      key1 == Mock_generateKey(password, salt)
      key2 == Mock_generateKey(password \o "layer2", salt)
      iv == WordArray_random(rIv, IvBytes)
      first == AES_encrypt(plaintext, KeyFromHex(key1), iv)
      intermediate == first
      ciphertext == AES_encrypt(intermediate, KeyFromHex(key2), iv)
  IN [result |-> [keySize |-> Mock_config.keySize * 8, iv |-> << Hex_stringify(iv) >>,
                  salt |-> salt, ciphertext |-> ciphertext, layers |-> 2,
                  algorithm |-> "QES-512 (Experimental)",
                  fields |-> {"ciphertext", "iv", "salt", "layers", "algorithm", "keySize"}],
      trace |-> [passes |-> << Pass(0, password, KeyFromHex(key1), iv,
                                    plaintext, first, TRUE, TRUE),
                               Pass(1, password \o "layer2", KeyFromHex(key2), iv,
                                    intermediate, ciphertext, TRUE, TRUE) >>,
                 salts |-> << Hex_parse(salt) >>, ivs |-> << iv >>]]

\* the catch block of the mock's decrypt
Mock_catch(message) ==
  IF Includes(message, "Malformed UTF-8")
  THEN << "QES-512 ", "decryption failed", ": Invalid password or corrupted data - " >> \o message
  ELSE << "QES-512 ", "decryption failed", ": " >> \o message

FirstLayerFailed == << "First layer ", "decryption failed", " - no intermediate result" >>

SecondLayerFailed == << "Second layer ", "decryption failed", " - invalid UTF-8 data" >>

Mock_decrypt(ciphertext, password, iv, salt) ==
  LET key1 == KeyFromHex(Mock_generateKey(password, salt))
      key2 == KeyFromHex(Mock_generateKey(password \o "layer2", salt))
      ivBytes == ParseIv(iv)
      P2(d) == Pass(1, password \o "layer2", key2, ivBytes, ciphertext, d.str,
                    Genuine(ciphertext, key2, ivBytes), TRUE)
      P1(x, d) == Pass(0, password, key1, ivBytes, x, d.str,
                       Genuine(x, key1, ivBytes), TRUE)
  IN UNION {
       LET intermediate == ToStringHex(d2)
       IN IF intermediate = EmptyStr
          THEN { Throw(Mock_catch(FirstLayerFailed), << P2(d2) >>) }
          ELSE { IF ~ d1.u8
                 THEN Throw(Mock_catch(MalformedUtf8), << P2(d2), P1(intermediate, d1) >>)
                 ELSE IF d1.str = EmptyStr
                 THEN Throw(Mock_catch(SecondLayerFailed), << P2(d2), P1(intermediate, d1) >>)
                 ELSE Return(d1.str, << P2(d2), P1(intermediate, d1) >>)
                 : d1 \in AES_decrypt(intermediate, key1, ivBytes) }
       : d2 \in AES_decrypt(ciphertext, key2, ivBytes) }

(***************************************************************************)
(* class HybridEncryption                                                  *)
(***************************************************************************)
\* variant of the layer password: the suffix leaves out the layer index
LayerPassword_noIndex(password, i) == password \o "_layer_"

LayerPassword(password, i) == password \o "_layer_" \o ToString(i)

\* the loop of encrypt from layer i on, up to this.layers; draws[i] = the salt
\* and IV that this.aes256.encrypt draws for layer i
RECURSIVE Hybrid_encryptFrom(_, _, _, _, _)
Hybrid_encryptFrom(i, currentData, password, draws, acc) ==
  IF ~ (i < layers) THEN [currentData |-> currentData, acc |-> acc]
  ELSE LET layerPassword == LayerPassword(password, i)
           r == AES256_encrypt(currentData, layerPassword, draws[i].salt, draws[i].iv)
           p == r.trace.passes[1]
       IN Hybrid_encryptFrom(i + 1, r.result.ciphertext, password, draws,
            [passes |-> Append(acc.passes, [p EXCEPT !.layer = i]),
             salts |-> acc.salts \o r.trace.salts, ivs |-> Append(acc.ivs, r.result.iv[1]),
             rawIvs |-> acc.rawIvs \o r.trace.ivs])

Hybrid_encrypt(plaintext, password, draws) ==
  LET e == Hybrid_encryptFrom(0, plaintext, password, draws,
             [passes |-> << >>, salts |-> << >>, ivs |-> << >>, rawIvs |-> << >>])
  IN [result |-> [keySize |-> 256 * layers, iv |-> Join(e.acc.ivs), salt |-> EmptyHex,
                  ciphertext |-> e.currentData, layers |-> layers,
                  algorithm |-> "Hybrid AES-256",
                  fields |-> {"ciphertext", "iv", "layers", "algorithm", "keySize"}],
      trace |-> [passes |-> e.acc.passes, salts |-> e.acc.salts, ivs |-> e.acc.rawIvs]]

\* the loop of decrypt from layer i down; draws[i] = the salt that
\* this.aes256.decrypt draws for layer i
RECURSIVE Hybrid_decryptFrom(_, _, _, _, _, _)
Hybrid_decryptFrom(i, currentData, password, ivArray, draws, passes) ==
  IF ~ (i >= 0) THEN { Return(currentData, passes) }
  ELSE UNION {
         IF o.status = "throw" THEN { Throw(o.message, passes \o o.passes) }
         ELSE Hybrid_decryptFrom(i - 1, o.plaintext, password, ivArray, draws,
                                 passes \o o.passes)
         : o \in AES256_decrypt(currentData, LayerPassword(password, i),
                                At(ivArray, i), i, draws[i]) }

\* variant of decrypt: the loop runs from layer 0 up to layer layers-1
RECURSIVE Hybrid_decryptUp(_, _, _, _, _, _)
Hybrid_decryptUp(i, currentData, password, ivArray, draws, passes) ==
  IF ~ (i < layers) THEN { Return(currentData, passes) }
  ELSE UNION {
         IF o.status = "throw" THEN { Throw(o.message, passes \o o.passes) }
         ELSE Hybrid_decryptUp(i + 1, o.plaintext, password, ivArray, draws,
                               passes \o o.passes)
         : o \in AES256_decrypt(currentData, LayerPassword(password, i),
                                At(ivArray, i), i, draws[i]) }

Hybrid_decrypt_forward(ciphertext, password, ivs, draws) ==
  Hybrid_decryptUp(0, ciphertext, password, Split(ivs), draws, << >>)

Hybrid_decrypt(ciphertext, password, ivs, draws) ==
  Hybrid_decryptFrom(layers - 1, ciphertext, password, Split(ivs), draws, << >>)

(***************************************************************************)
(* getSecurityLevel of the four classes.  calculateBruteForceTime(bits)    *)
(* divides 2^bits keys by 1e9 keys per second and picks the unit.  Its     *)
(* callers pass 128 or 256 bits per layer: with no bits or fewer the time  *)
(* is at most 1e-9 s, below 60; from 65 bits on it is 3.6e10 s or more,    *)
(* not below 31536000000; from 1024 bits on Math.pow returns Infinity.     *)
(***************************************************************************)
calculateBruteForceTime(bits) ==
  CASE bits <= 0 -> "0.00" \o " seconds"
    [] bits >= 65 /\ bits < 1024 -> "toFixed(2)" \o " billion years"
    [] bits >= 1024 -> "Infinity" \o " billion years"

AES256_getSecurityLevel ==
  [classicalBits |-> 256, quantumBits |-> 128,
   bruteForceTime |-> calculateBruteForceTime(256),
   quantumBruteForceTime |-> calculateBruteForceTime(128)]

QES512_getSecurityLevel ==
  [classicalBits |-> 512, quantumBits |-> 256,
   bruteForceTime |-> calculateBruteForceTime(512),
   quantumBruteForceTime |-> calculateBruteForceTime(256)]

Mock_getSecurityLevel ==
  [classicalBits |-> 512, quantumBits |-> 256,
   bruteForceTime |-> "1.34 x 10^154 years",
   quantumBruteForceTime |-> "1.16 x 10^77 years"]

\* variant of the hybrid report: two layers whatever this.layers is
Hybrid_getSecurityLevel_twoLayers ==
  [layers |-> layers, classicalBits |-> 512, quantumBits |-> 256,
   bruteForceTime |-> calculateBruteForceTime(512),
   quantumBruteForceTime |-> calculateBruteForceTime(256), performanceImpact |-> layers * 2]

\* effectiveBits / 2 is exact: effectiveBits is a multiple of 256
Hybrid_getSecurityLevel ==
  LET effectiveBits == 256 * layers
  IN [layers |-> layers, classicalBits |-> effectiveBits, quantumBits |-> effectiveBits \div 2,
      bruteForceTime |-> calculateBruteForceTime(effectiveBits),
      quantumBruteForceTime |-> calculateBruteForceTime(effectiveBits \div 2),
      performanceImpact |-> layers * 2]

(***************************************************************************)
(* Initial state and the steps: one action per method call.                *)
(***************************************************************************)
NoResult == [keySize |-> 0, iv |-> << >>, salt |-> EmptyHex, ciphertext |-> EmptyStr,
             layers |-> 0, algorithm |-> "", fields |-> {}]

NoTrace == [passes |-> << >>, salts |-> << >>, ivs |-> << >>]

NoCall == [password |-> "", message |-> << >>, plaintext |-> EmptyStr, passes |-> << >>,
           status |-> "", layers |-> 0, op |-> "none", variant |-> ""]

\* what the model keeps of one decrypt pass: the key is compared with the key
\* the encrypt call used for the same layer
Observed(p, encPasses) ==
  [iterations |-> p.key.iterations, password |-> p.password, layer |-> p.layer,
   genuine |-> p.genuine, cipher |-> p.cipher, keyBytes |-> KeyBytes(p.key),
   sameKey |-> /\ p.layer + 1 \in 1 .. Len(encPasses)
               /\ encPasses[p.layer + 1].key = p.key,
   sameIv |-> /\ p.layer + 1 \in 1 .. Len(encPasses)
              /\ encPasses[p.layer + 1].iv = p.iv,
   sameSalt |-> /\ p.layer + 1 \in 1 .. Len(encPasses)
                /\ encPasses[p.layer + 1].key.salt = p.key.salt]

\* no run of successive calls is under way
SuccessiveIdle == drawn = 0 /\ returned = << >>

NoDownload == [iv |-> << >>, salt |-> EmptyHex, password |-> "", ciphertext |-> EmptyStr,
               plaintext |-> EmptyStr, passes |-> << >>, layers |-> 0, algorithm |-> "",
               fields |-> {}, has |-> FALSE, page |-> ""]

NoReport == [genuine |-> FALSE, status |-> "", fields |-> {}, page |-> "", kind |-> "",
             written |-> FALSE, samePassword |-> FALSE, alerts |-> << >>, decryptCalls |-> 0,
             undefinedArgs |-> {}, passLayers |-> << >>, delivered |-> FALSE]

\* no file was written or uploaded
VaultIdle == download = NoDownload /\ report = NoReport

NoSizes == [passes |-> << >>, length |-> 0]

NoCarriage == [length |-> 0, stage |-> "", pattern |-> << 0, 0 >>, data |-> << >>]

\* no encryption or file is being followed
ComputationsIdle == sizes = NoSizes /\ carriage = NoCarriage

\* the Password Manager's form, and the forms a user fills in: complete, or
\* with one of the required fields left empty
EmptyForm == [password |-> "", name |-> "", username |-> "", website |-> ""]

NewEntries ==
  { f \in [name : {"", "mail"}, username : {"", "ann"}, password : {"", "s3cret"},
           website : {""}] :
      f = EmptyForm \/ Cardinality({f.name, f.username, f.password} \cap {""}) <= 1 }

\* uploadedFile: null, or a File (what it holds is read when its text is)
NoFile == ""

NoPending == [password |-> "", has |-> FALSE, file |-> NoFile]

NoManagerLog == [genuine |-> FALSE, op |-> "", alerts |-> << >>, outcome |-> ""]

\* the Password Manager as mounted: the useState initial values
ManagerIdle ==
  /\ manager = [entries |-> << >>, masterPassword |-> "", newEntry |-> EmptyForm,
                isEncrypted |-> FALSE, uploadedFile |-> NoFile,
                isProcessingFile |-> FALSE, pending |-> NoPending, now |-> 0]
  /\ managerLog = NoManagerLog

NoRun == [i |-> 0, password |-> "", active |-> FALSE, loop |-> "", unencryptedFiles |-> << >>,
          encryptedFiles |-> << >>, encryptionResults |-> << >>, encrypted |-> << >>,
          decrypted |-> << >>, failed |-> << >>]

\* the File Vault as mounted: the useState initial values
FileVaultIdle ==
  /\ fileVault = [password |-> "", files |-> << >>, isEncrypting |-> FALSE,
                  isDecrypting |-> FALSE, results |-> << >>]
  /\ run = NoRun

\* CryptoAnalyzer was not called
AnalyzerIdle == analysis = << >>

\* a new HybridEncryption() and nothing encrypted yet
CipherIdle ==
  /\ layers = 2
  /\ encryptedData = [n |-> 0, password |-> "", plaintext |-> EmptyStr, result |-> NoResult,
                      trace |-> NoTrace, variant |-> "", has |-> FALSE]
  /\ lastCall = NoCall

Init ==
  /\ SuccessiveIdle
  /\ VaultIdle
  /\ ComputationsIdle
  /\ CipherIdle
  /\ ManagerIdle
  /\ FileVaultIdle
  /\ AnalyzerIdle

\* n is the layer count the call was configured with
Encrypted(variant, t, password, n, r) ==
  /\ encryptedData' = [n |-> n, password |-> password, plaintext |-> Str(t),
                       result |-> r.result, trace |-> r.trace, variant |-> variant, has |-> TRUE]
  /\ lastCall' = [NoCall EXCEPT !.op = "encrypt", !.variant = variant,
                                !.password = password, !.layers = n,
                                !.status = "return"]
  /\ UNCHANGED outsideCipher

Decrypted(variant, password, n, o) ==
  /\ lastCall' = [password |-> password, message |-> o.message, plaintext |-> o.plaintext,
                  passes |-> [k \in 1 .. Len(o.passes) |->
                                Observed(o.passes[k], encryptedData.trace.passes)],
                  status |-> o.status, layers |-> n, op |-> "decrypt", variant |-> variant]
  /\ UNCHANGED << layers, encryptedData, outsideCipher >>

AES256Encrypt ==
  \E t \in Plaintexts, password \in Passwords, random \in RandomStreams :
    /\ Encrypted("AES256", t, password, 1,
                 AES256_encrypt(Str(t), password, Draw(random, 1), Draw(random, 2)))
    /\ UNCHANGED layers

QES512Encrypt ==
  \E t \in Plaintexts, password \in Passwords, random \in RandomStreams :
    /\ Encrypted("QES512", t, password, 2,
                 QES512_encrypt(Str(t), password, Draw(random, 1), Draw(random, 2)))
    /\ UNCHANGED layers

MockEncrypt ==
  \E t \in Plaintexts, password \in Passwords, random \in RandomStreams :
    /\ Encrypted("Mock", t, password, 2,
                 Mock_encrypt(Str(t), password, Draw(random, 1), Draw(random, 2)))
    /\ UNCHANGED layers

\* layer i is the (i+1)-th call of this.aes256.encrypt: it draws a salt, then an IV
HybridEncryptDraws(random, n) ==
  [i \in 0 .. n - 1 |-> [iv |-> Draw(random, 2 * i + 2), salt |-> Draw(random, 2 * i + 1)]]

\* layer i is the (n-i)-th call of this.aes256.decrypt: it draws a salt
HybridDecryptDraws(random, n) == [i \in 0 .. n - 1 |-> Draw(random, n - i)]

HybridEncrypt ==
  \E t \in Plaintexts, password \in Passwords, random \in RandomStreams :
    /\ Encrypted("Hybrid", t, password, layers,
                 Hybrid_encrypt(Str(t), password, HybridEncryptDraws(random, layers)))
    /\ UNCHANGED layers

\* the callers pass result.ciphertext, the password and result.iv
AES256Decrypt ==
  /\ encryptedData.has /\ encryptedData.variant = "AES256"
  /\ \E password \in Passwords, random \in RandomStreams :
       \E o \in AES256_decrypt(encryptedData.result.ciphertext, password,
                               encryptedData.result.iv, 0, Draw(random, 1)) :
         Decrypted("AES256", password, 1, o)

QES512Decrypt ==
  /\ encryptedData.has /\ encryptedData.variant = "QES512"
  /\ \E password \in Passwords, random \in RandomStreams :
       \E o \in QES512_decrypt(encryptedData.result.ciphertext, password,
                               encryptedData.result.iv, Draw(random, 1)) :
         Decrypted("QES512", password, 2, o)

\* the test suite passes encrypted.salt as the fourth argument
MockDecrypt ==
  /\ encryptedData.has /\ encryptedData.variant = "Mock"
  /\ \E password \in Passwords :
       \E o \in Mock_decrypt(encryptedData.result.ciphertext, password,
                             encryptedData.result.iv, encryptedData.result.salt) :
         Decrypted("Mock", password, 2, o)

HybridDecrypt ==
  /\ encryptedData.has /\ encryptedData.variant = "Hybrid"
  /\ \E password \in Passwords, random \in RandomStreams :
       \E o \in Hybrid_decrypt(encryptedData.result.ciphertext, password,
                               encryptedData.result.iv,
                               HybridDecryptDraws(random, layers)) :
         Decrypted("Hybrid", password, layers, o)

\* setLayers(n); new HybridEncryption(n) leaves an instance in the same state
SetLayers ==
  \E n \in LayerCounts :
    /\ layers' = n
    /\ lastCall' = [NoCall EXCEPT !.op = "setLayers", !.variant = "Hybrid", !.layers = n]
    /\ UNCHANGED << encryptedData, outsideCipher >>

Next ==
  \/ AES256Encrypt
  \/ QES512Encrypt
  \/ MockEncrypt
  \/ HybridEncrypt
  \/ AES256Decrypt
  \/ QES512Decrypt
  \/ MockDecrypt
  \/ HybridDecrypt
  \/ SetLayers

Spec == Init /\ [][Next]_vars

(***************************************************************************)
(* Successive encrypt calls on one instance of each class, fed by a random *)
(* source that never hands out the same value twice.                       *)
(***************************************************************************)
\* the k-th value the random source hands out
RandomValue(k) == "v" \o ToString(k)

\* one more encrypt call: it took `used` values from the random source
NextCall(variant, t, password, n, r, used) ==
  /\ drawn + used <= MaxDraws
  /\ drawn' = drawn + used
  /\ returned' = (IF Len(returned) = 2 THEN Tail(returned) ELSE returned) \o
                   << [n |-> n, password |-> password, plaintext |-> t, result |-> r.result,
                       salts |-> r.trace.salts, ivs |-> r.trace.ivs, variant |-> variant] >>
  /\ UNCHANGED << cipherVars, outsideSuccessive >>

AES256EncryptNext ==
  \E t \in Plaintexts, password \in Passwords :
    NextCall("AES256", t, password, 1,
             AES256_encrypt(Str(t), password, RandomValue(drawn + 1), RandomValue(drawn + 2)),
             2)

QES512EncryptNext ==
  \E t \in Plaintexts, password \in Passwords :
    NextCall("QES512", t, password, 2,
             QES512_encrypt(Str(t), password, RandomValue(drawn + 1), RandomValue(drawn + 2)),
             2)

MockEncryptNext ==
  \E t \in Plaintexts, password \in Passwords :
    NextCall("Mock", t, password, 2,
             Mock_encrypt(Str(t), password, RandomValue(drawn + 1), RandomValue(drawn + 2)),
             2)

\* layer i is the (i+1)-th call of this.aes256.encrypt: it draws a salt, then an IV
HybridEncryptNext ==
  \E t \in Plaintexts, password \in Passwords :
    NextCall("Hybrid", t, password, layers,
             Hybrid_encrypt(Str(t), password,
               [i \in 0 .. layers - 1 |->
                  [iv |-> RandomValue(drawn + 2 * i + 2),
                   salt |-> RandomValue(drawn + 2 * i + 1)]]),
             2 * Max0(layers))

\* setLayers(n) between two calls
SetLayersNext ==
  \E n \in LayerCounts :
    /\ n # layers
    /\ layers' = n
    /\ UNCHANGED << encryptedData, lastCall, successiveVars, outsideSuccessive >>

InitSuccessive == Init

NextSuccessive ==
  \/ AES256EncryptNext
  \/ QES512EncryptNext
  \/ MockEncryptNext
  \/ HybridEncryptNext
  \/ SetLayersNext

SpecSuccessive == InitSuccessive /\ [][NextSuccessive]_vars

(***************************************************************************)
(* The sizes of one layered encryption, pass by pass: each pass encrypts   *)
(* the UTF-8 bytes of its input string under CBC with Pkcs7 padding and    *)
(* passes on ciphertext.toString(), the Base64 text of the ciphertext.     *)
(***************************************************************************)
\* size of the AES-CBC ciphertext of n bytes padded with Pkcs7
Pkcs7Size(n) == BlockBytes * ((n \div BlockBytes) + 1)

\* variant of the text passed on: as many characters as the ciphertext has bytes
Base64Size_bytes(n) == n

\* length of ciphertext.toString() for a ciphertext of n bytes
Base64Size(n) == 4 * ((n + 2) \div 3)

\* one more pass of the layer loop (QES512 makes two, HybridEncryption this.layers)
EncryptPass ==
  /\ Len(sizes.passes) < MaxLayers
  /\ LET input == IF sizes.passes = << >> THEN sizes.length
                  ELSE sizes.passes[Len(sizes.passes)].text
         ciphertext == Pkcs7Size(input)
     IN sizes' = [sizes EXCEPT !.passes =
                    Append(@, [ciphertext |-> ciphertext, input |-> input,
                               text |-> Base64Size(ciphertext)])]
  /\ UNCHANGED outsideSizes

\* encrypt is called with a plaintext of any length up to MaxLength
InitGrowth ==
  /\ SuccessiveIdle
  /\ VaultIdle
  /\ CipherIdle
  /\ ManagerIdle
  /\ FileVaultIdle
  /\ AnalyzerIdle
  /\ carriage = NoCarriage
  /\ sizes \in { [passes |-> << >>, length |-> length] : length \in 0 .. MaxLength }

NextGrowth == EncryptPass

SpecGrowth == InitGrowth /\ [][NextGrowth]_vars

(***************************************************************************)
(* A file's bytes through processFiles: Uint8Array to binary string in     *)
(* chunks, btoa, (encryption and decryption of the text,) atob, and back   *)
(* to a Uint8Array character by character.                                 *)
(***************************************************************************)
Min(a, b) == IF a < b THEN a ELSE b

\* the files followed: the shortest ones and lengths around every multiple
\* of chunkSize, with bytes first, first + step, first + 2 * step, ... (mod 256)
FileLengths ==
  (0 .. 3) \cup { k * chunkSize + d : k \in 1 .. MaxChunks, d \in {-1, 0, 1} }

BytePatterns == { << 0, 255 >>, << 1, 0 >>, << 37, 200 >> }

FileBytes(length, pattern) ==
  [i \in 1 .. length |-> (pattern[1] * (i - 1) + pattern[2]) % 256]

\* variant of slice: the last element of every full chunk is left out
Slice_short(array, start, end) == SubSeq(array, start + 1, Min(end - 1, Len(array)))

\* uint8Array.slice(start, end), 0 <= start <= end
Slice(array, start, end) == SubSeq(array, start + 1, Min(end, Len(array)))

\* String.fromCharCode(...chunk): one UTF-16 code unit per element
FromCharCode(chunk) == [k \in 1 .. Len(chunk) |-> chunk[k] % 65536]

\* the chunk loop from index i on
RECURSIVE BinaryStringFrom(_, _)
BinaryStringFrom(uint8Array, i) ==
  IF ~ (i < Len(uint8Array)) THEN << >>
  ELSE FromCharCode(Slice(uint8Array, i, i + chunkSize)) \o
       BinaryStringFrom(uint8Array, i + chunkSize)

\* the character code at 0-based index i, 0 past the end
CodeAt(binaryString, i) == IF i < Len(binaryString) THEN binaryString[i + 1] ELSE 0

\* btoa(binaryString), all codes below 256: the Base64 digits, 64 for '='
btoa(binaryString) ==
  [k \in 1 .. 4 * ((Len(binaryString) + 2) \div 3) |->
     LET g == (k - 1) \div 4
         p == (k - 1) % 4
         v == CodeAt(binaryString, 3 * g) * 65536
               + CodeAt(binaryString, 3 * g + 1) * 256
               + CodeAt(binaryString, 3 * g + 2)
     IN IF p >= 2 /\ 3 * g + p > Len(binaryString) THEN 64
        ELSE CASE p = 0 -> v \div 262144
               [] p = 1 -> (v \div 4096) % 64
               [] p = 2 -> (v \div 64) % 64
               [] p = 3 -> v % 64]

\* how many '=' end the text
Padding(text) ==
  IF Len(text) = 0 THEN 0
  ELSE IF text[Len(text)] # 64 THEN 0
  ELSE IF text[Len(text) - 1] # 64 THEN 1 ELSE 2

Digit(text, k) == IF text[k] = 64 THEN 0 ELSE text[k]

\* atob(text) of a padded Base64 text: the binary string
atob(text) ==
  [j \in 1 .. 3 * (Len(text) \div 4) - Padding(text) |->
     LET g == (j - 1) \div 3
         q == (j - 1) % 3
         v == Digit(text, 4 * g + 1) * 262144 + Digit(text, 4 * g + 2) * 4096
               + Digit(text, 4 * g + 3) * 64 + Digit(text, 4 * g + 4)
     IN CASE q = 0 -> v \div 65536
          [] q = 1 -> (v \div 256) % 256
          [] q = 2 -> v % 256]

\* new Uint8Array(n); uint8Array[i] = binaryString.charCodeAt(i)
CharCodesToBytes(binaryString) ==
  [i \in 1 .. Len(binaryString) |-> binaryString[i] % 256]

Carried(stage, data) ==
  /\ carriage' = [carriage EXCEPT !.stage = stage, !.data = data]
  /\ UNCHANGED outsideCarriage

\* fileData.file.arrayBuffer(); new Uint8Array(arrayBuffer)
ReadFile ==
  /\ carriage.stage = ""
  /\ \E length \in FileLengths, pattern \in BytePatterns :
       /\ carriage' = [length |-> length, stage |-> "uint8Array", pattern |-> pattern,
                       data |-> FileBytes(length, pattern)]
       /\ UNCHANGED outsideCarriage

ToBinaryString ==
  /\ carriage.stage = "uint8Array"
  /\ Carried("binaryString", BinaryStringFrom(carriage.data, 0))

EncodeBase64 ==
  /\ carriage.stage = "binaryString"
  /\ Carried("fileContent", btoa(carriage.data))

DecodeBase64 ==
  /\ carriage.stage = "fileContent"
  /\ Carried("decoded", atob(carriage.data))

ToBytes ==
  /\ carriage.stage = "decoded"
  /\ Carried("bytes", CharCodesToBytes(carriage.data))

InitCarriage == Init

NextCarriage ==
  \/ ReadFile
  \/ ToBinaryString
  \/ EncodeBase64
  \/ DecodeBase64
  \/ ToBytes

SpecCarriage == InitCarriage /\ [][NextCarriage]_vars

(***************************************************************************)
(* The pages that write envelopes to .encrypted files and read them back:  *)
(* FileVault.processFiles and PasswordManager.encryptPasswords /           *)
(* uploadAndDecryptPasswords.  Both hold one QES512 instance.              *)
(***************************************************************************)
\* what the pages encrypt: btoa of the file's bytes (of an empty file, of a
\* one-byte file); JSON.stringify(entries) of a non-empty list of entries
VaultContents == {"", "QQ=="}

ManagerContents == {"[entries]"}

\* the pages return early on an empty password
PagePasswords == Passwords \ {""}

\* JSON.parse(JSON.stringify(encryptedData)) of the object both pages build
\* from the encrypt result: a property whose value is undefined is left out
EnvelopeOf_asReturned(result) ==
  [iv |-> result.iv, salt |-> result.salt, ciphertext |-> result.ciphertext,
   layers |-> result.layers, algorithm |-> result.algorithm,
   fields |-> {"ciphertext", "iv", "algorithm"} \cup
                (result.fields \cap {"salt", "layers"})]

EnvelopeOf(result) ==
  [iv |-> result.iv, salt |-> result.salt, ciphertext |-> result.ciphertext,
   layers |-> IF "layers" \in result.fields /\ result.layers # 0
              THEN result.layers ELSE 2,
   algorithm |-> result.algorithm,
   fields |-> {"ciphertext", "iv", "algorithm", "layers"} \cup
                (result.fields \cap {"salt"})]

\* the alerts of the two pages
CannotDecryptAlert ==
  "Cannot decrypt. File must contain structured encrypted data with ciphertext, iv, and salt."

CheckPasswordAlert == "Failed to decrypt. Please check your password."

CheckMasterPasswordAlert ==
  "Failed to decrypt password file. Please check your master password."

\* the files a user can upload: one whose text cannot be read, one that is
\* not JSON, and JSON objects with any of the properties; the ciphertext and
\* iv are those of the file written last or made up, the salt is made up
SuppliedSalt == [hex |-> "r1", chars |-> 2 * SaltBytes]

SuppliedIv == << [hex |-> "r1", chars |-> 2 * IvBytes] >>

UploadedFile(kind, fields, written) ==
  [iv |-> IF written THEN download.iv ELSE SuppliedIv, salt |-> SuppliedSalt,
   ciphertext |-> IF written THEN download.ciphertext ELSE Junk, layers |-> 2,
   fields |-> fields, kind |-> kind, written |-> written]

UploadedFiles ==
  { UploadedFile("unreadable", {}, FALSE), UploadedFile("text", {}, FALSE) } \cup
  { UploadedFile("json", fields, written) :
      fields \in SUBSET {"ciphertext", "iv", "salt", "layers"},
      written \in { w \in BOOLEAN : w => download.has } }

\* qes512.decrypt(encryptedData.ciphertext, password, encryptedData.iv,
\* encryptedData.salt): a missing property is passed as undefined; decrypt
\* has no fourth parameter
QES512_decryptEnvelope(file, password, rSalt) ==
  IF "iv" \notin file.fields \/ "ciphertext" \notin file.fields
  THEN { Throw(TypeErrorMessage, << >>) }
  ELSE QES512_decrypt(file.ciphertext, password, file.iv, rSalt)

\* atob(text): whether it returns; text that no page produced may or may
\* not be Base64
Atob(text) ==
  IF text = Junk THEN {TRUE, FALSE}
  ELSE IF text.w = << >> /\ text.s \in ManagerContents THEN {FALSE}
  ELSE {TRUE}

\* JSON.parse(text): whether it returns
JSON_parse(text) ==
  IF text = Junk THEN {TRUE, FALSE}
  ELSE IF text.w = << >> /\ text.s \in ManagerContents THEN {TRUE}
  ELSE {FALSE}

Reported(page, file, password, alerts, calls, o, delivered) ==
  [genuine |-> /\ o.passes # << >>
               /\ \A k \in 1 .. Len(o.passes) : o.passes[k].genuine,
   status |-> o.status, fields |-> file.fields, page |-> page, kind |-> file.kind,
   written |-> file.written, samePassword |-> download.has /\ password = download.password,
   alerts |-> alerts, decryptCalls |-> calls,
   undefinedArgs |-> IF calls = 0 THEN {}
                     ELSE {"ciphertext", "iv", "salt"} \ file.fields,
   passLayers |-> [k \in 1 .. Len(o.passes) |-> o.passes[k].layer], delivered |-> delivered]

NoOutcome == [message |-> << >>, plaintext |-> EmptyStr, passes |-> << >>, status |-> ""]

\* the decrypt branch of processFiles for one encrypted file
FileVault_decryptFile(file, password, rSalt) ==
  IF file.kind = "unreadable"
  THEN { Reported("FileVault", file, password, << CheckPasswordAlert >>, 0, NoOutcome, FALSE) }
  ELSE IF file.kind = "text"
  THEN { Reported("FileVault", file, password, << CannotDecryptAlert >>, 0, NoOutcome, FALSE) }
  ELSE IF ~ ({"ciphertext", "iv", "salt"} \subseteq file.fields)
  THEN { Reported("FileVault", file, password, << >>, 0, NoOutcome, FALSE) }
  ELSE UNION {
         IF o.status = "throw"
         THEN { Reported("FileVault", file, password, << CannotDecryptAlert >>, 1, o, FALSE) }
         ELSE { IF decoded
                THEN Reported("FileVault", file, password, << >>, 1, o, TRUE)
                ELSE Reported("FileVault", file, password, << CannotDecryptAlert >>, 1, o, FALSE)
                : decoded \in Atob(o.plaintext) }
         : o \in QES512_decryptEnvelope(file, password, rSalt) }

\* uploadAndDecryptPasswords for the uploaded file
PasswordManager_uploadAndDecrypt(file, password, rSalt) ==
  IF file.kind \in {"unreadable", "text"}
  THEN { Reported("PasswordManager", file, password, << CheckMasterPasswordAlert >>,
                  0, NoOutcome, FALSE) }
  ELSE UNION {
         IF o.status = "throw"
         THEN { Reported("PasswordManager", file, password, << CheckMasterPasswordAlert >>,
                         1, o, FALSE) }
         ELSE { IF parsed
                THEN Reported("PasswordManager", file, password, << >>, 1, o, TRUE)
                ELSE Reported("PasswordManager", file, password,
                              << CheckMasterPasswordAlert >>, 1, o, FALSE)
                : parsed \in JSON_parse(o.plaintext) }
         : o \in QES512_decryptEnvelope(file, password, rSalt) }

\* what the one WordArray.random of a decrypt call can return
FirstDraws == { Draw(random, 1) : random \in RandomStreams }

\* the encrypted file a page downloads after qes512.encrypt
DownloadOf(page, t, password, r) ==
  LET encryptedData_ == EnvelopeOf(r.result)
  IN [iv |-> encryptedData_.iv, salt |-> encryptedData_.salt, password |-> password,
      ciphertext |-> encryptedData_.ciphertext, plaintext |-> Str(t), passes |-> r.trace.passes,
      layers |-> encryptedData_.layers, algorithm |-> encryptedData_.algorithm,
      fields |-> encryptedData_.fields, has |-> TRUE, page |-> page]

Downloaded(page, t, password, r) ==
  /\ download' = DownloadOf(page, t, password, r)
  /\ report' = NoReport
  /\ UNCHANGED outsideVault

\* processFiles with one unencrypted file
FileVaultEncrypt ==
  \E t \in VaultContents, password \in PagePasswords, random \in RandomStreams :
    Downloaded("FileVault", t, password,
               QES512_encrypt(Str(t), password, Draw(random, 1), Draw(random, 2)))

EncryptPasswords ==
  \E t \in ManagerContents, password \in PagePasswords, random \in RandomStreams :
    Downloaded("PasswordManager", t, password,
               QES512_encrypt(Str(t), password, Draw(random, 1), Draw(random, 2)))

\* processFiles with one encrypted file
FileVaultDecrypt ==
  \E file \in UploadedFiles, password \in PagePasswords, rSalt \in FirstDraws :
    /\ report' \in FileVault_decryptFile(file, password, rSalt)
    /\ UNCHANGED << download, outsideVault >>

UploadAndDecryptPasswords ==
  \E file \in UploadedFiles, password \in PagePasswords, rSalt \in FirstDraws :
    /\ report' \in PasswordManager_uploadAndDecrypt(file, password, rSalt)
    /\ UNCHANGED << download, outsideVault >>

InitVault == Init

NextVault ==
  \/ FileVaultEncrypt
  \/ EncryptPasswords
  \/ FileVaultDecrypt
  \/ UploadAndDecryptPasswords

SpecVault == InitVault /\ [][NextVault]_vars

(***************************************************************************)
(* The Password Manager page: one action per handler.  A handler runs to   *)
(* its end in one step, except uploadAndDecryptPasswords, which awaits the *)
(* file's text: other handlers can run before it resumes.                  *)
(***************************************************************************)
\* Date.now().toString() at the successive addEntry calls: the clock has
\* moved on since the entry before
EntryIds == { ToString(k) : k \in 1 .. MaxEntries }

\* the random values the page's encrypt calls draw (salt, IV)
ManagerStreams == { << "r1", "r2" >> }

\* const entry = { id: Date.now().toString(), ...newEntry }
EntryOf(id, newEntry) ==
  [iv |-> << >>, password |-> newEntry.password, algorithm |-> "", fields |-> {},
   name |-> newEntry.name, username |-> newEntry.username, website |-> newEntry.website,
   encrypted |-> EmptyStr, id |-> id]

\* the value that text which is not the page's own parses to, when it
\* parses: not an entry list the page made (the page is not followed on)
JunkEntries == << EntryOf("<junk>", EmptyForm) >>

\* the entry lists that are serialized: entries carry a ciphertext only
\* while isEncrypted, and the Encrypt button is disabled then
EntryLists ==
  LET made == { EntryOf(id, f) : id \in EntryIds,
                                 f \in { g \in NewEntries : "" \notin {g.name, g.username, g.password} } }
  IN UNION { [1 .. k -> made] : k \in 0 .. MaxEntries }

\* JSON.stringify(entries): the text, as TLC writes the value
JSON_stringify(entries) == ToString(entries)

\* JSON.parse(text): the entry list whose text it is, or a throw
JSON_parseEntries(text) ==
  LET found == { l \in EntryLists : text.w = << >> /\ JSON_stringify(l) = text.s }
  IN IF text = Junk
     THEN { [ok |-> TRUE, value |-> JunkEntries], [ok |-> FALSE, value |-> << >>] }
     ELSE IF found # {}
     THEN { [ok |-> TRUE, value |-> l] : l \in found }
     ELSE { [ok |-> FALSE, value |-> << >>] }

MasterPasswordAlert == "Please set a master password before adding password entries."

DecryptionFailedAlert == "Decryption failed. Please check your master password."

UploadEncryptedAlert ==
  "Please upload a .encrypted file. Only encrypted password files are supported."

\* the handler `op` ends with page state m
Handled(m, op, outcome, alerts, genuine) ==
  /\ manager.entries # JunkEntries
  /\ manager' = m
  /\ managerLog' = [genuine |-> genuine, op |-> op, alerts |-> alerts, outcome |-> outcome]
  /\ UNCHANGED << download, outsideManager >>

\* an input field changes
Typed(m) == Handled(m, "", "", << >>, FALSE)

setMasterPassword ==
  \E password \in Passwords :
    Typed([manager EXCEPT !.masterPassword = password])

setNewEntry ==
  \E f \in NewEntries :
    Typed([manager EXCEPT !.newEntry = f])

\* setNewEntry by a user who fills in every required field
fillNewEntry ==
  \E f \in NewEntries :
    /\ "" \notin {f.name, f.username, f.password}
    /\ Typed([manager EXCEPT !.newEntry = f])

\* variant of the check of the form: only the name is required
RequiredMissing_nameOnly(newEntry) == newEntry.name = ""

\* !newEntry.name || !newEntry.username || !newEntry.password
RequiredMissing(newEntry) ==
  "" \in {newEntry.name, newEntry.username, newEntry.password}

addEntry ==
  IF manager.masterPassword = ""
  THEN Handled(manager, "addEntry", "guard", << MasterPasswordAlert >>, FALSE)
  ELSE IF RequiredMissing(manager.newEntry)
  THEN Handled(manager, "addEntry", "guard", << >>, FALSE)
  ELSE /\ manager.now < MaxEntries
       /\ Handled([manager EXCEPT
                     !.entries = Append(@, EntryOf(ToString(manager.now + 1), manager.newEntry)),
                     !.newEntry = EmptyForm,
                     !.now = @ + 1],
                  "addEntry", "done", << >>, FALSE)

\* prev.map(entry => ({...entry, encrypted, iv, algorithm}))
WithCiphertext(entry, result) ==
  [entry EXCEPT !.encrypted = result.ciphertext, !.iv = result.iv,
                !.algorithm = result.algorithm,
                !.fields = {"encrypted", "iv", "algorithm"}]

\* the Encrypt button is disabled while isEncrypted
encryptPasswords ==
  /\ ~ manager.isEncrypted
  /\ manager.entries # JunkEntries
  /\ IF manager.masterPassword = "" \/ Len(manager.entries) = 0
     THEN Handled(manager, "encryptPasswords", "guard", << >>, FALSE)
     ELSE \E random \in ManagerStreams :
            LET passwordData == JSON_stringify(manager.entries)
                result == QES512_encrypt(Str(passwordData), manager.masterPassword,
                                         Draw(random, 1), Draw(random, 2))
            IN /\ manager' =
                    [manager EXCEPT
                       !.entries = [k \in DOMAIN @ |-> WithCiphertext(@[k], result.result)],
                       !.isEncrypted = TRUE]
               /\ managerLog' = [genuine |-> FALSE, op |-> "encryptPasswords", alerts |-> << >>,
                                 outcome |-> "done"]
               /\ download' = IF "written" \in {manager.uploadedFile, manager.pending.file}
                              THEN download
                              ELSE DownloadOf("PasswordManager", passwordData,
                                              manager.masterPassword, result)
               /\ UNCHANGED outsideManager

\* entries.find(e => e.encrypted): its index, 0 when there is none
FirstEncrypted(entries) ==
  LET found == { k \in DOMAIN entries : "encrypted" \in entries[k].fields }
  IN IF found = {} THEN 0 ELSE CHOOSE k \in found : \A j \in found : k <= j

AllGenuine(o) ==
  /\ o.passes # << >>
  /\ \A k \in 1 .. Len(o.passes) : o.passes[k].genuine

\* setEntries(decryptedEntries); setIsEncrypted(...)
Restored(m, parsed, isEncrypted) ==
  [m EXCEPT !.entries = parsed.value, !.isEncrypted = isEncrypted]

decryptPasswords ==
  IF manager.masterPassword = "" \/ ~ manager.isEncrypted
  THEN Handled(manager, "decryptPasswords", "guard", << >>, FALSE)
  ELSE IF FirstEncrypted(manager.entries) = 0
  THEN Handled(manager, "decryptPasswords", "return", << >>, FALSE)
  ELSE LET firstEntry == manager.entries[FirstEncrypted(manager.entries)]
       IN \E rSalt \in FirstDraws :
            \E o \in QES512_decrypt(firstEntry.encrypted, manager.masterPassword,
                                    firstEntry.iv, rSalt) :
              \E parsed \in JSON_parseEntries(o.plaintext) :
                IF o.status = "throw" \/ ~ parsed.ok
                THEN Handled(manager, "decryptPasswords", "failed",
                             << DecryptionFailedAlert >>, FALSE)
                ELSE Handled(Restored(manager, parsed, FALSE), "decryptPasswords",
                             "done", << >>, AllGenuine(o))

\* the Delete button of one of the entries shown
deleteEntry ==
  \E k \in DOMAIN manager.entries :
    LET id == manager.entries[k].id
        kept(entry) == entry.id # id
    IN Typed([manager EXCEPT !.entries = SelectSeq(@, kept)])

\* the files a user drops: "other", whose name does not end in .encrypted,
\* and two .encrypted files: "text", which is not JSON, and "written", the
\* file the page wrote that the user kept (`download`; a file in use is
\* not replaced by a later one)
DroppedFiles == {"other", "text"} \cup (IF download.has THEN {"written"} ELSE {})

\* await uploadedFile.text(); JSON.parse(fileContent)
FileRead(file) ==
  IF file = "written" THEN UploadedFile("json", download.fields, TRUE)
  ELSE UploadedFile("text", {}, FALSE)

onDrop ==
  \E file \in DroppedFiles :
    IF file # "other"
    THEN Typed([manager EXCEPT !.uploadedFile = file])
    ELSE Handled(manager, "onDrop", "guard", << UploadEncryptedAlert >>, FALSE)

\* uploadAndDecryptPasswords up to `await uploadedFile.text()`; the Decrypt &
\* Load button is disabled while isProcessingFile
uploadAndDecryptPasswords ==
  /\ ~ manager.pending.has
  /\ IF manager.uploadedFile = NoFile \/ manager.masterPassword = ""
     THEN Handled(manager, "uploadAndDecryptPasswords", "guard", << >>, FALSE)
     ELSE Handled([manager EXCEPT !.isProcessingFile = TRUE,
                                  !.pending = [password |-> manager.masterPassword,
                                               has |-> TRUE, file |-> manager.uploadedFile]],
                  "uploadAndDecryptPasswords", "awaits", << >>, FALSE)

\* variant of the end of the call: isProcessingFile is left as it is
Settled_noFinally(m) == [m EXCEPT !.pending = NoPending]

\* finally { setIsProcessingFile(false) }: the call is over
Settled(m) == [m EXCEPT !.isProcessingFile = FALSE, !.pending = NoPending]

\* uploadAndDecryptPasswords from the await on, with the file and the master
\* password the call captured
uploadAndDecryptPasswords_resumed ==
  /\ manager.pending.has
  /\ LET file == FileRead(manager.pending.file)
         settled == Settled(manager)
         failed == Handled(settled, "uploadAndDecryptPasswords", "failed",
                           << CheckMasterPasswordAlert >>, FALSE)
     IN IF file.kind = "text"
        THEN failed
        ELSE \E rSalt \in FirstDraws :
               \E o \in QES512_decryptEnvelope(file, manager.pending.password, rSalt) :
                 \E parsed \in JSON_parseEntries(o.plaintext) :
                   IF o.status = "throw" \/ ~ parsed.ok
                   THEN failed
                   ELSE Handled([Restored(settled, parsed, TRUE) EXCEPT !.uploadedFile = NoFile],
                                "uploadAndDecryptPasswords", "done", << >>, AllGenuine(o))

\* the page of a user who keeps the entries in the page: no file is dropped
InitManager == Init

NextManager ==
  \/ setMasterPassword
  \/ setNewEntry
  \/ addEntry
  \/ encryptPasswords
  \/ decryptPasswords
  \/ deleteEntry

SpecManager == InitManager /\ [][NextManager]_vars

\* the page of a user who loads the entries from files: forms are filled in
\* completely and no entry is deleted
InitUpload == Init

NextUpload ==
  \/ setMasterPassword
  \/ fillNewEntry
  \/ addEntry
  \/ encryptPasswords
  \/ decryptPasswords
  \/ onDrop
  \/ uploadAndDecryptPasswords
  \/ uploadAndDecryptPasswords_resumed

SpecUpload == InitUpload /\ [][NextUpload]_vars

(***************************************************************************)
(* The File Vault page: onDrop, setPassword, clearFiles and processFiles.  *)
(* processFiles awaits the content of one file at a time: it is one step   *)
(* up to its first await and one step per file from then on, and other     *)
(* handlers run in between.  A file name is a sequence of characters.      *)
(***************************************************************************)
DotEncrypted == << ".", "e", "n", "c", "r", "y", "p", "t", "e", "d" >>

DotENCRYPTED == << ".", "E", "N", "C", "R", "Y", "P", "T", "E", "D" >>

\* the files a user drops: the name, whether reading the file succeeds, and
\* what it holds (any bytes, text that is not JSON, or a JSON object with the
\* envelope's fields)
DroppableFiles ==
  { [name |-> << "a" >>, reads |-> TRUE, holds |-> "bytes"],
    [name |-> << "c" >> \o DotEncrypted \o << "x" >>, reads |-> FALSE, holds |-> "bytes"],
    [name |-> << "d" >> \o DotEncrypted, reads |-> TRUE, holds |-> "envelope"],
    [name |-> << "e" >> \o DotENCRYPTED, reads |-> TRUE, holds |-> "text"],
    [name |-> DotEncrypted, reads |-> FALSE, holds |-> "envelope"] }

\* String.prototype.toLowerCase, on the letters the names are written with
ToLowerCase(str) ==
  LET lower == ("C" :> "c") @@ ("D" :> "d") @@ ("E" :> "e") @@ ("N" :> "n") @@
               ("P" :> "p") @@ ("R" :> "r") @@ ("T" :> "t") @@ ("Y" :> "y")
  IN [k \in DOMAIN str |-> IF str[k] \in DOMAIN lower THEN lower[str[k]] ELSE str[k]]

\* String.prototype.endsWith
EndsWith(str, suffix) ==
  /\ Len(str) >= Len(suffix)
  /\ SubSeq(str, Len(str) - Len(suffix) + 1, Len(str)) = suffix

\* variant of detectFileType: the name is compared as it is written
detectFileType_caseSensitive(file) ==
  IF EndsWith(file.name, DotEncrypted) THEN "encrypted" ELSE "unencrypted"

detectFileType(file) ==
  IF EndsWith(ToLowerCase(file.name), DotEncrypted) THEN "encrypted" ELSE "unencrypted"

\* each File dropped is a new object: a file is in the list once
FileVault_onDrop ==
  \E file \in DroppableFiles :
    /\ Len(fileVault.files) < MaxFiles
    /\ \A k \in DOMAIN fileVault.files : fileVault.files[k].file # file
    /\ LET fileType == detectFileType(file)
       IN fileVault' = [fileVault EXCEPT
                          !.files = Append(@, [file |-> file,
                                               isEncrypted |-> fileType = "encrypted",
                                               fileType |-> fileType])]
    /\ UNCHANGED << run, outsideFileVault >>

FileVault_setPassword ==
  \E password \in {"", "pw"} :
    /\ fileVault' = [fileVault EXCEPT !.password = password]
    /\ UNCHANGED << run, outsideFileVault >>

\* the Clear All button is shown with files and a password
clearFiles ==
  /\ fileVault.files # << >>
  /\ fileVault.password # ""
  /\ fileVault' = [fileVault EXCEPT !.files = << >>, !.results = << >>]
  /\ UNCHANGED << run, outsideFileVault >>

WithType(files, fileType) ==
  LET typed(f) == f.fileType = fileType
  IN SelectSeq(files, typed)

\* processFiles up to its first await; the button shows `loading` while a
\* call is under way, and one call is followed at a time
processFiles ==
  /\ ~ run.active
  /\ IF fileVault.password = "" \/ Len(fileVault.files) = 0
     THEN UNCHANGED << fileVault, run >>
     ELSE LET unencryptedFiles == WithType(fileVault.files, "unencrypted")
              encryptedFiles == WithType(fileVault.files, "encrypted")
              encrypts == Len(unencryptedFiles) > 0
          IN /\ run' = [NoRun EXCEPT !.active = TRUE,
                                     !.loop = IF encrypts THEN "encrypt" ELSE "decrypt",
                                     !.i = 1,
                                     !.password = fileVault.password,
                                     !.unencryptedFiles = unencryptedFiles,
                                     !.encryptedFiles = encryptedFiles]
             /\ fileVault' = IF encrypts
                             THEN [fileVault EXCEPT !.isEncrypting = TRUE]
                             ELSE [fileVault EXCEPT !.isDecrypting = TRUE]
  /\ UNCHANGED outsideFileVault

\* variant of the push: a file is listed whether it was encrypted or not
Pushed_always(encryptionResults, fileData, result, ok) ==
  Append(encryptionResults,
         [iv |-> result.iv, ciphertext |-> result.ciphertext, algorithm |-> result.algorithm,
          fileName |-> fileData.file.name])

\* encryptionResults.push({...}) unless reading or encrypting the file threw
Pushed(encryptionResults, fileData, result, ok) ==
  IF ok
  THEN Append(encryptionResults,
              [iv |-> result.iv, ciphertext |-> result.ciphertext,
               algorithm |-> result.algorithm, fileName |-> fileData.file.name])
  ELSE encryptionResults

\* setFiles(prev => prev.map(f => f.file === fileData.file ? {...} : f))
MarkedEncrypted(files, fileData) ==
  [k \in DOMAIN files |->
     IF files[k].file = fileData.file
     THEN [files[k] EXCEPT !.fileType = "encrypted", !.isEncrypted = TRUE]
     ELSE files[k]]

\* the encrypt loop from the await of file i to the next await or the end
processFiles_encrypted ==
  /\ run.active
  /\ run.loop = "encrypt"
  /\ \E random \in ManagerStreams :
       LET fileData == run.unencryptedFiles[run.i]
           ok == fileData.file.reads
           result == QES512_encrypt(Str("QQ=="), run.password,
                                    Draw(random, 1), Draw(random, 2)).result
           encryptionResults == Pushed(run.encryptionResults, fileData, result, ok)
           files == IF ok THEN MarkedEncrypted(fileVault.files, fileData)
                    ELSE fileVault.files
           logged == [run EXCEPT
                        !.encryptionResults = encryptionResults,
                        !.encrypted = IF ok THEN Append(@, fileData.file.name) ELSE @,
                        !.failed = IF ok THEN @ ELSE Append(@, fileData.file.name)]
       IN IF run.i < Len(run.unencryptedFiles)
          THEN /\ fileVault' = [fileVault EXCEPT !.files = files]
               /\ run' = [logged EXCEPT !.i = @ + 1]
          ELSE /\ fileVault' = [fileVault EXCEPT
                                  !.results = encryptionResults,
                                  !.isEncrypting = FALSE,
                                  !.files = << >>,
                                  !.isDecrypting = @ \/ Len(run.encryptedFiles) > 0]
               /\ run' = IF Len(run.encryptedFiles) > 0
                         THEN [logged EXCEPT !.loop = "decrypt", !.i = 1]
                         ELSE [logged EXCEPT !.active = FALSE, !.loop = "", !.i = 0]
  /\ UNCHANGED outsideFileVault

\* the file as the decrypt loop reads it
AsUploaded(file) ==
  IF ~ file.reads THEN UploadedFile("unreadable", {}, FALSE)
  ELSE IF file.holds = "envelope"
  THEN UploadedFile("json", {"ciphertext", "iv", "salt", "layers"}, FALSE)
  ELSE UploadedFile("text", {}, FALSE)

\* variant of the end of the decrypt loop: the file list is left as it is
DecryptionDone_keepsFiles(page) == [page EXCEPT !.isDecrypting = FALSE]

\* setIsDecrypting(false); setFiles([])
DecryptionDone(page) == [page EXCEPT !.isDecrypting = FALSE, !.files = << >>]

\* the decrypt loop from the await of file i to the next await or the end
processFiles_decrypted ==
  /\ run.active
  /\ run.loop = "decrypt"
  /\ \E rSalt \in FirstDraws :
       LET fileData == run.encryptedFiles[run.i]
       IN \E reported \in FileVault_decryptFile(AsUploaded(fileData.file), run.password, rSalt) :
            LET logged == [run EXCEPT
                             !.decrypted = Append(@, fileData.file.name),
                             !.failed = IF reported.alerts # << >>
                                        THEN Append(@, fileData.file.name) ELSE @]
            IN IF run.i < Len(run.encryptedFiles)
               THEN /\ run' = [logged EXCEPT !.i = @ + 1]
                    /\ UNCHANGED fileVault
               ELSE /\ run' = [logged EXCEPT !.active = FALSE, !.loop = "", !.i = 0]
                    /\ fileVault' = DecryptionDone(fileVault)
  /\ UNCHANGED outsideFileVault

InitFileVault == Init

NextFileVault ==
  \/ FileVault_onDrop
  \/ FileVault_setPassword
  \/ clearFiles
  \/ processFiles
  \/ processFiles_encrypted
  \/ processFiles_decrypted

SpecFileVault == InitFileVault /\ [][NextFileVault]_vars

\* every await of processFiles settles
SpecFileVaultFair ==
  /\ InitFileVault
  /\ [][NextFileVault]_vars
  /\ WF_vars(processFiles_encrypted)
  /\ WF_vars(processFiles_decrypted)

(***************************************************************************)
(* class CryptoAnalyzer: analyzeQuantumThreat and compareSecurityLevels.   *)
(* An algorithm label is a sequence of characters.                         *)
(***************************************************************************)
Experimental == << "E", "x", "p", "e", "r", "i", "m", "e", "n", "t", "a", "l" >>

AES256_label == << "A", "E", "S", "-", "2", "5", "6" >>

QES512_label == 
  << "Q", "E", "S", "-", "5", "1", "2", " ", "(", "E", "x",
     "p", "e", "r", "i", "m", "e", "n", "t", "a", "l", ")" >>

Hybrid_label == 
  << "H", "y", "b", "r", "i", "d", " ", "A", "E", "S", "-",
     "2", "5", "6", " ", "(", "2", " ", "l", "a", "y", "e", "r", "s", ")" >>

\* the labels compareSecurityLevels passes, and labels that hold the word
\* alone, in lower case, or not at all
AlgorithmLabels ==
  { AES256_label, QES512_label, Hybrid_label, Experimental,
    << "e", "x", "p", "e", "r", "i", "m", "e", "n", "t", "a", "l" >>, << >> }

\* the bit counts around the comparisons of determineQuantumResistance
QuantumBitCounts ==
  {0, 512} \cup { t + d : t \in {128, 192, 256}, d \in {-1, 0, 1} }

\* String.prototype.includes on a string of characters
IncludesString(str, searchString) ==
  \E k \in 1 .. Len(str) - Len(searchString) + 1 :
    SubSeq(str, k, k + Len(searchString) - 1) = searchString

\* variant of determineQuantumResistance: 128 bits still count as 'Low'
determineQuantumResistance_above(quantumBits) ==
  IF quantumBits <= 128 THEN "Low"
  ELSE IF quantumBits < 192 THEN "Medium"
  ELSE IF quantumBits < 256 THEN "High"
  ELSE "Very High"

determineQuantumResistance(quantumBits) ==
  IF quantumBits < 128 THEN "Low"
  ELSE IF quantumBits < 192 THEN "Medium"
  ELSE IF quantumBits < 256 THEN "High"
  ELSE "Very High"

ExperimentalWarning == "Experimental algorithm - not recommended for production"

generateRecommendations(algorithm, quantumBits, resistance) ==
  LET recommendations ==
        IF resistance = "Low"
        THEN << "Consider upgrading to a quantum-resistant algorithm",
                "Use longer key lengths if possible" >>
        ELSE IF resistance = "Medium"
        THEN << "Monitor quantum computing developments",
                "Consider hybrid approaches for critical data" >>
        ELSE IF resistance = "High"
        THEN << "Good quantum resistance for current threats",
                "Regular security audits recommended" >>
        ELSE << "Excellent quantum resistance",
                "Suitable for long-term data protection" >>
  IN IF IncludesString(algorithm, Experimental)
     THEN Append(recommendations, ExperimentalWarning)
     ELSE recommendations

\* the complexities are Math.pow(2, bits), kept as the exponent
CryptoAnalyzer_analyzeQuantumThreat(algorithm, classicalBits, quantumBits) ==
  LET quantumResistance == determineQuantumResistance(quantumBits)
  IN [algorithm |-> algorithm, classicalBits |-> classicalBits, quantumBits |-> quantumBits,
      bruteForceTime |-> calculateBruteForceTime(classicalBits),
      quantumBruteForceTime |-> calculateBruteForceTime(quantumBits),
      recommendations |-> generateRecommendations(algorithm, quantumBits,
                                                  quantumResistance),
      quantumResistance |-> quantumResistance, classicalComplexity |-> [pow2 |-> classicalBits],
      quantumComplexity |-> [pow2 |-> quantumBits]]

\* a caller passes a label and the bits of a security level: twice as many
\* classical bits as quantum bits, or as many
analyzeQuantumThreat ==
  \E algorithm \in AlgorithmLabels, quantumBits \in QuantumBitCounts :
    \E classicalBits \in {quantumBits, 2 * quantumBits} :
      /\ analysis' = << CryptoAnalyzer_analyzeQuantumThreat(algorithm, classicalBits,
                                                            quantumBits) >>
      /\ UNCHANGED outsideAnalyzer

\* the analyses in the order aes256, qes512, hybrid
compareSecurityLevels ==
  /\ analysis' = << CryptoAnalyzer_analyzeQuantumThreat(AES256_label, 256, 128),
                    CryptoAnalyzer_analyzeQuantumThreat(QES512_label, 512, 256),
                    CryptoAnalyzer_analyzeQuantumThreat(Hybrid_label, 512, 256) >>
  /\ UNCHANGED outsideAnalyzer

InitAnalyzer == Init

NextAnalyzer ==
  \/ analyzeQuantumThreat
  \/ compareSecurityLevels

SpecAnalyzer == InitAnalyzer /\ [][NextAnalyzer]_vars

(***************************************************************************)
(* Properties.                                                             *)
(***************************************************************************)
IsDecrypt == lastCall.op = "decrypt"

EncPasses == encryptedData.trace.passes

\* a decrypt call with the password and the layer count of the encrypt call
\* whose result it was given
SameConfiguration ==
  /\ IsDecrypt
  /\ lastCall.password = encryptedData.password
  /\ lastCall.layers = encryptedData.n

ValidRequest ==
  /\ encryptedData.has
  /\ encryptedData.password # ""
  /\ encryptedData.n >= 1

\* C1: decrypting what encrypt(t, p, n) returned, with the same non-empty
\* password p and the same layer count n >= 1, returns exactly t.
C1_RoundTrip ==
  (ValidRequest /\ SameConfiguration) =>
     (lastCall.status = "return" /\ lastCall.plaintext = encryptedData.plaintext)

\* C2: decrypting the result of encrypt(t, p1, n) with a password p2 # p1 (same
\* n) always throws an error whose message contains 'decryption failed'; it
\* never returns a value as plaintext.
C2_WrongPasswordFails ==
  (/\ ValidRequest /\ IsDecrypt
   /\ lastCall.password # encryptedData.password
   /\ lastCall.layers = encryptedData.n) =>
     (lastCall.status = "throw" /\ Includes(lastCall.message, "decryption failed"))

\* C3: a ciphertext produced with layer count n and decrypted with the correct
\* password by a HybridEncryption configured for m # n layers (n, m >= 1)
\* throws and never returns a value as plaintext.
C3_LayerCountSensitive ==
  (/\ ValidRequest /\ IsDecrypt /\ lastCall.variant = "Hybrid"
   /\ lastCall.password = encryptedData.password
   /\ lastCall.layers >= 1
   /\ lastCall.layers # encryptedData.n) =>
     lastCall.status = "throw"

\* C4: every object encrypt returns has a non-empty ciphertext, iv and salt,
\* and for every layer the key decrypt derives with the same password equals
\* the key encrypt used for that layer.
C4_EnvelopeSufficient ==
  /\ ValidRequest =>
       /\ {"ciphertext", "iv", "salt"} \subseteq encryptedData.result.fields
       /\ encryptedData.result.ciphertext # EmptyStr
       /\ encryptedData.result.iv # << >>
       /\ encryptedData.result.salt # EmptyHex
  /\ (ValidRequest /\ SameConfiguration) =>
       \A k \in 1 .. Len(lastCall.passes) : lastCall.passes[k].sameKey

\* C5: an encrypt or decrypt call with an empty password or with a layer count
\* below 1 is rejected with an error before any key derivation or cipher pass
\* runs; encrypt returns no result for such a call.
C5_InputValidated ==
  (/\ lastCall.op \in {"encrypt", "decrypt"}
   /\ (lastCall.password = "" \/ lastCall.layers < 1)) =>
     (lastCall.status = "throw" /\ lastCall.passes = << >>)

\* C6: whenever a layer's decryption step fails (the key or IV is not the one
\* the layer was encrypted with, or the input is no ciphertext), decrypt
\* throws; it returns no value, neither an intermediate output nor the empty
\* string.
C6_AtomicDecrypt ==
  (/\ IsDecrypt
   /\ \E k \in 1 .. Len(lastCall.passes) : ~ lastCall.passes[k].genuine) =>
     lastCall.status = "throw"

\* the ciphertext encrypt returned, layer by layer (innermost first)
Layer(k) == encryptedData.result.ciphertext.w[k]

NLayers == Len(encryptedData.result.ciphertext.w)

\* C7: encrypt applies its passes in forward order, layer 0 first up to layer
\* n-1, each pass taking the previous pass's output as input, and returns the
\* last output; decrypt applies its passes in reverse order, layer n-1 first
\* down to layer 0, and feeds to the key derivation of layer i the password
\* string that encrypt fed for layer i.
C7_LayerOrder ==
  /\ encryptedData.has =>
       /\ Len(EncPasses) = Max0(encryptedData.n)
       /\ NLayers = Len(EncPasses)
       /\ encryptedData.result.ciphertext.s = encryptedData.plaintext.s
       /\ \A k \in 1 .. Len(EncPasses) :
            /\ EncPasses[k].layer = k - 1
            /\ EncPasses[k].input =
                 (IF k = 1 THEN encryptedData.plaintext ELSE EncPasses[k - 1].output)
            /\ Layer(k) = AesWrap(EncPasses[k].key, EncPasses[k].iv)
            /\ k = Len(EncPasses) => EncPasses[k].output = encryptedData.result.ciphertext
  /\ IsDecrypt =>
       /\ \A k \in 1 .. Len(lastCall.passes) :
            /\ lastCall.passes[k].layer = lastCall.layers - k
            /\ (/\ lastCall.password = encryptedData.password
                /\ lastCall.passes[k].layer < Len(EncPasses)) =>
                  lastCall.passes[k].password =
                    EncPasses[lastCall.passes[k].layer + 1].password
       /\ lastCall.status = "return" => Len(lastCall.passes) = Max0(lastCall.layers)

\* a three-layer HybridEncryption round trip in which every inverse pass met
\* the layer it was meant for
C7_Witness ==
  /\ IsDecrypt /\ lastCall.variant = "Hybrid" /\ lastCall.status = "return"
  /\ encryptedData.n = 3 /\ lastCall.layers = 3
  /\ Len(lastCall.passes) = 3
  /\ \A k \in 1 .. 3 : lastCall.passes[k].genuine
  /\ lastCall.plaintext = encryptedData.plaintext

\* C8 as stated: one encrypt call generates exactly one 16-byte IV, every
\* layer's CBC pass uses that IV, and the iv field is that IV hex-encoded.
C8_SharedIV ==
  (encryptedData.has /\ encryptedData.n >= 1) =>
     /\ Len(encryptedData.trace.ivs) = 1
     /\ encryptedData.trace.ivs[1].sigBytes = 16
     /\ \A k \in 1 .. NLayers : Layer(k).iv = encryptedData.trace.ivs[1]
     /\ encryptedData.result.iv = << Hex_stringify(encryptedData.trace.ivs[1]) >>

\* C8 amended: an AES256 or QES512 encrypt call generates exactly one 16-byte
\* IV, every layer of the call is encrypted under it and the iv field is its
\* hex text; a HybridEncryption encrypt call with n layers generates n 16-byte
\* IVs, layer i is encrypted under the i-th and the iv field is their hex
\* texts joined by '|' in layer order.
C8_IvPerVariant ==
  encryptedData.has =>
     LET ivs == encryptedData.trace.ivs
     IN /\ \A k \in 1 .. Len(ivs) : ivs[k].sigBytes = 16
        /\ IF encryptedData.variant = "Hybrid"
           THEN /\ Len(ivs) = Max0(encryptedData.n)
                /\ NLayers = Len(ivs)
                /\ \A k \in 1 .. NLayers : Layer(k).iv = ivs[k]
                /\ encryptedData.result.iv =
                     Join([k \in 1 .. Len(ivs) |-> Hex_stringify(ivs[k])])
           ELSE /\ Len(ivs) = 1
                /\ NLayers = encryptedData.n
                /\ \A k \in 1 .. NLayers : Layer(k).iv = ivs[1]
                /\ encryptedData.result.iv = << Hex_stringify(ivs[1]) >>

\* a three-layer HybridEncryption result whose layers have different IVs
C8_Witness ==
  /\ encryptedData.has /\ encryptedData.variant = "Hybrid" /\ encryptedData.n = 3
  /\ Layer(1).iv # Layer(2).iv
  /\ Len(encryptedData.result.iv) = 5

\* the salt as PBKDF2 receives it: the bytes, or the UTF-8 bytes of the hex
\* text when the hex text itself is passed
DerivedWith(key, salt) ==
  \/ key.salt = salt
  \/ key.salt = Utf8_parse(Hex_stringify(salt))

\* C9 as stated: one encrypt call generates exactly one 32-byte salt and the
\* keys of all its layers are derived with that salt.
C9_SingleSalt ==
  (encryptedData.has /\ encryptedData.n >= 1) =>
     /\ Len(encryptedData.trace.salts) = 1
     /\ encryptedData.trace.salts[1].sigBytes = 32
     /\ \A k \in 1 .. NLayers : DerivedWith(Layer(k).key, encryptedData.trace.salts[1])

\* C9 amended: an AES256 or QES512 encrypt call generates exactly one 32-byte
\* salt and derives the keys of all its layers with it; a HybridEncryption
\* encrypt call with n layers generates n 32-byte salts, one per layer, and
\* derives the key of layer i with the i-th.
C9_SaltPerVariant ==
  encryptedData.has =>
     LET salts == encryptedData.trace.salts
     IN /\ \A k \in 1 .. Len(salts) : salts[k].sigBytes = 32
        /\ IF encryptedData.variant = "Hybrid"
           THEN /\ Len(salts) = Max0(encryptedData.n)
                /\ NLayers = Len(salts)
                /\ \A k \in 1 .. NLayers : DerivedWith(Layer(k).key, salts[k])
           ELSE /\ Len(salts) = 1
                /\ NLayers = encryptedData.n
                /\ \A k \in 1 .. NLayers : DerivedWith(Layer(k).key, salts[1])

\* a three-layer HybridEncryption result whose layer keys come from different salts
C9_Witness ==
  /\ encryptedData.has /\ encryptedData.variant = "Hybrid" /\ encryptedData.n = 3
  /\ encryptedData.trace.salts[1] # encryptedData.trace.salts[2]
  /\ Layer(1).key.salt # Layer(2).key.salt

KeyBytesOf(variant) == IF variant = "QES512" THEN 64 ELSE 32

C11_LayerDiscriminators ==
  /\ encryptedData.has =>
       \A j, k \in 1 .. Len(EncPasses) :
         j # k => /\ EncPasses[j].password # EncPasses[k].password
                  /\ EncPasses[j].key.pwd # EncPasses[k].key.pwd
  /\ IsDecrypt =>
       /\ \A j, k \in 1 .. Len(lastCall.passes) :
            j # k => lastCall.passes[j].password # lastCall.passes[k].password
       /\ lastCall.password = encryptedData.password =>
            \A k \in 1 .. Len(lastCall.passes) :
              lastCall.passes[k].layer < Len(EncPasses) =>
                lastCall.passes[k].password =
                  EncPasses[lastCall.passes[k].layer + 1].password

\* a four-layer HybridEncryption decrypt call, given the password of the
\* encrypt call, that derived the keys of all four layers
C11_Witness ==
  /\ IsDecrypt /\ lastCall.variant = "Hybrid"
  /\ encryptedData.n = 4 /\ lastCall.layers = 4
  /\ lastCall.password = encryptedData.password
  /\ Len(lastCall.passes) = 4
  /\ lastCall.passes[1].password # lastCall.passes[4].password

C13_FreshRandomness ==
  (/\ Len(returned) = 2
   /\ returned[1].variant = returned[2].variant
   /\ returned[1].plaintext = returned[2].plaintext
   /\ returned[1].password = returned[2].password
   /\ returned[1].n = returned[2].n
   /\ returned[1].password # "" /\ returned[1].n >= 1) =>
     /\ \A j \in 1 .. Len(returned[1].salts), k \in 1 .. Len(returned[2].salts) :
          returned[1].salts[j] # returned[2].salts[k]
     /\ \A j \in 1 .. Len(returned[1].ivs), k \in 1 .. Len(returned[2].ivs) :
          returned[1].ivs[j] # returned[2].ivs[k]
     /\ "salt" \in returned[1].result.fields
     /\ "salt" \in returned[2].result.fields
     /\ returned[1].result.salt # returned[2].result.salt
     /\ returned[1].result.iv # returned[2].result.iv
     /\ returned[1].result.ciphertext # returned[2].result.ciphertext

\* C14: the outcome of a decrypt call depends only on its own arguments and
\* its own random draws, not on calls made before it on the same instance: a
\* decrypt that is given the ciphertext and iv of an encrypt result and its
\* password, and whose random draws make every key it derives the key of that
\* layer, returns the plaintext whatever calls (a decrypt, a layer-count
\* change) were made since the encrypt call.
C14_NoSharedState ==
  (/\ ValidRequest /\ IsDecrypt /\ lastCall.variant # "Mock"
   /\ lastCall.password = encryptedData.password
   /\ lastCall.passes # << >>
   /\ \A k \in 1 .. Len(lastCall.passes) :
        lastCall.passes[k].sameKey /\ lastCall.passes[k].sameIv) =>
     (lastCall.status = "return" /\ lastCall.plaintext = encryptedData.plaintext)

\* the last step decrypted an uploaded file
Processed == report.page # ""

\* the uploaded file was a JSON object without one of ciphertext, iv, salt
MalformedEnvelope ==
  /\ Processed /\ report.kind = "json"
  /\ ~ ({"ciphertext", "iv", "salt"} \subseteq report.fields)

\* C15: when the uploaded envelope lacks any of the fields ciphertext, iv or
\* salt, the page alerts the input-format error and performs no decryption:
\* it does not skip the file silently and does not call decrypt with a
\* missing field.
C15_MalformedEnvelopeRejected ==
  MalformedEnvelope =>
    /\ report.alerts = << CannotDecryptAlert >>
    /\ report.decryptCalls = 0
    /\ report.undefinedArgs = {}
    /\ ~ report.delivered

\* C16: the encrypt result of QES512 carries no layer count and the envelope
\* both pages write has layers = 2; the decryption of an uploaded envelope,
\* with or without a layers field, runs the inverse pass of layer 1 and then
\* that of layer 0 and no other: both when it returns, the first alone when
\* that one throws.
C16_DefaultLayerCount ==
  /\ download.has =>
       /\ "layers" \in download.fields
       /\ download.layers = 2
       /\ Len(download.passes) = 2
  /\ (Processed /\ report.decryptCalls > 0 /\ report.undefinedArgs \subseteq {"salt"}) =>
       /\ report.passLayers \in { << 1 >>, << 1, 0 >> }
       /\ report.status = "return" => report.passLayers = << 1, 0 >>

\* the Password Manager decrypted an uploaded envelope that has no layers
\* field with two inverse passes, after a page wrote an envelope with layers = 2
C16_Witness ==
  /\ download.has /\ download.layers = 2
  /\ Processed /\ report.kind = "json" /\ "layers" \notin report.fields
  /\ report.status = "return"
  /\ report.passLayers = << 1, 0 >>

\* the decryption was given a complete envelope and a wrong password or a
\* ciphertext no page wrote, and did not recover a plaintext
FailedDecryption ==
  /\ Processed /\ report.kind = "json"
  /\ {"ciphertext", "iv", "salt"} \subseteq report.fields
  /\ ~ report.written \/ ~ report.samePassword
  /\ ~ report.genuine

\* C18: a decryption that fails because of a wrong password or a corrupted
\* ciphertext is surfaced exactly once, as a wrong-password failure and not as
\* the input-format error, after a single call of decrypt.
C18_ErrorClassification ==
  FailedDecryption =>
    /\ report.decryptCalls = 1
    /\ Len(report.alerts) = 1
    /\ report.alerts[1] \in {CheckPasswordAlert, CheckMasterPasswordAlert}
    /\ ~ report.delivered

\* C17: encrypt of the empty string with a non-empty password returns a
\* non-empty ciphertext, and decrypting that result with the same password
\* (and layer count) returns the empty string: it does not throw.
C17_EmptyPlaintext ==
  (/\ ValidRequest /\ encryptedData.plaintext = EmptyStr) =>
     /\ encryptedData.result.ciphertext # EmptyStr
     /\ SameConfiguration =>
          (lastCall.status = "return" /\ lastCall.plaintext = EmptyStr)

\* C19 as stated: after n layers the ciphertext exceeds the plaintext's length
\* by at most one 16-byte block per layer, and no layer's ciphertext exceeds
\* the previous layer's by more than one block.
C19_PaddingOnlyGrowth ==
  \A k \in 1 .. Len(sizes.passes) :
    /\ sizes.passes[k].ciphertext <= sizes.length + 16 * k
    /\ k > 1 => sizes.passes[k].ciphertext <= sizes.passes[k - 1].ciphertext + 16

\* C19 amended: every layer pads its input to the next multiple of 16 bytes
\* (1 to 16 bytes more), and what it passes to the next layer, and returns at
\* the end, is the Base64 text of its ciphertext: 4 characters for every 3
\* bytes, rounded up to a multiple of 4.  The size is multiplied by 4/3 at
\* each layer on top of the padding.
C19_GrowthPerLayer ==
  \A k \in 1 .. Len(sizes.passes) :
    LET p == sizes.passes[k]
    IN /\ p.input = (IF k = 1 THEN sizes.length ELSE sizes.passes[k - 1].text)
       /\ p.ciphertext % 16 = 0
       /\ p.input < p.ciphertext /\ p.ciphertext <= p.input + 16
       /\ p.text % 4 = 0
       /\ 3 * p.text >= 4 * p.ciphertext /\ 3 * p.text < 4 * p.ciphertext + 12

\* two layers made a 32-byte plaintext's ciphertext 80 bytes long
C19_Witness ==
  /\ sizes.length = 32
  /\ Len(sizes.passes) = 2
  /\ sizes.passes[2].ciphertext = 80
  /\ sizes.passes[2].ciphertext > sizes.length + 16 * 2

\* C20: for every file (empty, shorter than one chunk, an exact multiple of
\* 8192 bytes, longer), the bytes converted to a binary string in 8192-byte
\* chunks, Base64-encoded, Base64-decoded and converted back character by
\* character are exactly the original bytes in the original order.
C20_BinaryCarriage ==
  /\ carriage.stage = "binaryString" => Len(carriage.data) = carriage.length
  /\ carriage.stage = "fileContent" =>
       /\ Len(carriage.data) = 4 * ((carriage.length + 2) \div 3)
       /\ \A k \in 1 .. Len(carriage.data) : carriage.data[k] \in 0 .. 64
  /\ carriage.stage = "bytes" =>
       carriage.data = FileBytes(carriage.length, carriage.pattern)

\* a file of two whole chunks with bytes of many values came back
C20_Witness ==
  /\ carriage.stage = "bytes"
  /\ carriage.length = 2 * chunkSize
  /\ carriage.pattern = << 37, 200 >>
  /\ Len(carriage.data) = 2 * chunkSize
  /\ carriage.data[chunkSize + 1] = (37 * chunkSize + 200) % 256

\* C21: while isEncrypted is true (from a successful Encrypt Passwords until
\* a decryption with the master password succeeds), no entry in the page
\* state holds its plaintext password.
C21_VaultConfidentiality ==
  manager.isEncrypted =>
    \A k \in DOMAIN manager.entries : manager.entries[k].password = ""

\* C24: addEntry changes nothing when the master password is empty or the
\* new entry's name, username or password is empty; encryptPasswords changes
\* nothing when the master password is empty or the entry list is empty;
\* decryptPasswords changes nothing when the master password is empty or
\* isEncrypted is false.
C24_Guards ==
  [][ /\ ( /\ managerLog'.op = "addEntry"
           /\ \/ manager.masterPassword = ""
              \/ manager.newEntry.name = ""
              \/ manager.newEntry.username = ""
              \/ manager.newEntry.password = "" )
         => UNCHANGED << manager, download >>
      /\ ( /\ managerLog'.op = "encryptPasswords"
           /\ (manager.masterPassword = "" \/ manager.entries = << >>) )
         => UNCHANGED << manager, download >>
      /\ ( /\ managerLog'.op = "decryptPasswords"
           /\ (manager.masterPassword = "" \/ ~ manager.isEncrypted) )
         => UNCHANGED << manager, download >> ]_vars

\* addEntry was called with a master password and a form without a password
C24_Witness ==
  /\ managerLog.op = "addEntry"
  /\ managerLog.outcome = "guard"
  /\ manager.masterPassword # ""
  /\ manager.newEntry.name # ""
  /\ manager.newEntry.username # ""
  /\ manager.newEntry.password = ""

\* C25: a decryptPasswords that fails (decrypt throws, or the text is not
\* JSON) leaves the entries and isEncrypted as they were; a failed
\* uploadAndDecryptPasswords leaves the entries, isEncrypted and the uploaded
\* file as they were and ends with isProcessingFile false.
C25_FailureFrame ==
  [][ /\ (managerLog'.op = "decryptPasswords" /\ managerLog'.outcome = "failed")
         => /\ manager'.entries = manager.entries
            /\ manager'.isEncrypted = manager.isEncrypted
      /\ (managerLog'.op = "uploadAndDecryptPasswords" /\ managerLog'.outcome = "failed")
         => /\ manager'.entries = manager.entries
            /\ manager'.isEncrypted = manager.isEncrypted
            /\ manager'.uploadedFile = manager.uploadedFile
            /\ ~ manager'.isProcessingFile ]_vars

\* the decryption of the page's own file failed (another master password)
\* with entries in the page
C25_Witness ==
  /\ managerLog.op = "uploadAndDecryptPasswords"
  /\ managerLog.outcome = "failed"
  /\ manager.uploadedFile = "written"
  /\ manager.entries # << >>
  /\ ~ manager.isProcessingFile

\* C26: after a decryptPasswords that succeeds, whatever addEntry and
\* deleteEntry steps came since the encryptPasswords, the entry list is the
\* list that was serialized at encryption time.
C26_SnapshotRestore ==
  (managerLog.op = "decryptPasswords" /\ managerLog.outcome = "done")
    => JSON_stringify(manager.entries) = download.plaintext.s

\* C22: getSecurityLevel reports classicalBits = 256 x (number of AES-256
\* layers) and quantumBits = classicalBits / 2 for every variant: 256/128 for
\* AES256, 512/256 for QES512, 256n/128n for HybridEncryption with n layers,
\* after any setLayers, with non-empty classical and quantum time estimates.
C22_SecurityLevel ==
  LET Estimated(level) == level.bruteForceTime # "" /\ level.quantumBruteForceTime # ""
      Halved(level) == 2 * level.quantumBits = level.classicalBits
  IN /\ AES256_getSecurityLevel.classicalBits = 256 * 1
     /\ QES512_getSecurityLevel.classicalBits = 256 * 2
     /\ Mock_getSecurityLevel.classicalBits = 256 * 2
     /\ Hybrid_getSecurityLevel.classicalBits = 256 * layers
     /\ \A level \in {AES256_getSecurityLevel, QES512_getSecurityLevel,
                      Mock_getSecurityLevel} :
          Halved(level) /\ Estimated(level)
     /\ Halved(Hybrid_getSecurityLevel) /\ Estimated(Hybrid_getSecurityLevel)

\* setLayers(3) was the last call, and the report is 768/384
C22_Witness ==
  /\ lastCall.op = "setLayers"
  /\ layers = 3
  /\ Hybrid_getSecurityLevel.classicalBits = 768
  /\ Hybrid_getSecurityLevel.quantumBits = 384

\* the name ends with ".encrypted", in whatever case it is written
EndsInDotEncrypted(name) ==
  \E k \in 0 .. Len(name) :
    /\ Len(name) = k + Len(DotEncrypted)
    /\ \A j \in DOMAIN DotEncrypted : name[k + j] \in {DotEncrypted[j], DotENCRYPTED[j]}

NamesOf(files) == [k \in DOMAIN files |-> files[k].file.name]

Range(seq) == { seq[k] : k \in DOMAIN seq }

RunEnded == ~ run.active /\ run # NoRun

\* C23: a file in the list is classified 'encrypted' exactly when its name
\* ends with ".encrypted" in any case (an entry the encrypt loop of the run
\* under way has just encrypted is the one exception: it is marked encrypted
\* until the loop clears the list); a run of processFiles takes the files
\* classified 'unencrypted' to its encrypt loop and those classified
\* 'encrypted' to its decrypt loop, every file of the list it started with is
\* taken up by the end of the run (its encryption succeeded or failed, its
\* decryption was attempted), and no file is both encrypted and decrypted.
C23_FileRouting ==
  /\ \A k \in DOMAIN fileVault.files :
       LET f == fileVault.files[k]
       IN \/ (f.fileType = "encrypted") <=> EndsInDotEncrypted(f.file.name)
          \/ run.active /\ f.file.name \in Range(run.encrypted)
  /\ \A name \in Range(NamesOf(run.unencryptedFiles)) : ~ EndsInDotEncrypted(name)
  /\ \A name \in Range(NamesOf(run.encryptedFiles)) : EndsInDotEncrypted(name)
  /\ Range(run.encrypted) \subseteq Range(NamesOf(run.unencryptedFiles))
  /\ Range(run.decrypted) \subseteq Range(NamesOf(run.encryptedFiles))
  /\ Range(run.encrypted) \cap Range(run.decrypted) = {}
  /\ RunEnded =>
       /\ Range(NamesOf(run.unencryptedFiles)) = Range(run.encrypted) \cup
            (Range(run.failed) \ Range(run.decrypted))
       /\ NamesOf(run.encryptedFiles) = run.decrypted

\* a run over a plain file and a file named in upper case has ended: the one
\* was encrypted, the other went to the decrypt loop
C23_Witness ==
  /\ RunEnded
  /\ run.encrypted = << << "a" >> >>
  /\ run.decrypted = << << "e" >> \o DotENCRYPTED >>

ResultNames(results) == [k \in DOMAIN results |-> results[k].fileName]

\* the files of a list whose content can be read, by name
ReadableNames(files) ==
  LET reads(f) == f.file.reads
  IN NamesOf(SelectSeq(files, reads))

C28_BusyFlags ==
  run.active ~> ( /\ ~ run.active
                  /\ ~ fileVault.isEncrypting
                  /\ ~ fileVault.isDecrypting
                  /\ fileVault.files = << >> )

\* a run has ended with a success and a failure, the flags are down and the
\* list is empty
C28_Witness ==
  /\ RunEnded
  /\ run.encrypted # << >>
  /\ run.failed # << >>
  /\ ~ fileVault.isEncrypting
  /\ ~ fileVault.isDecrypting
  /\ fileVault.files = << >>

\* a call of HybridEncryption.encrypt with n >= 1 layers is the last encrypt call
HybridEncrypted ==
  /\ encryptedData.has
  /\ encryptedData.variant = "Hybrid"
  /\ encryptedData.n >= 1

\* C29: the iv that HybridEncryption.encrypt returns with n >= 1 layers splits
\* on '|' into exactly n components, the i-th being the hex text (32
\* characters) of the IV that layer i was encrypted with; and every pass that
\* a decrypt call makes over a layer i < n is made with the IV of the
\* encryption of layer i.
C29_IvPacking ==
  HybridEncrypted =>
    LET ivArray == Split(encryptedData.result.iv)
    IN /\ Len(ivArray) = encryptedData.n
       /\ Len(encryptedData.trace.ivs) = encryptedData.n
       /\ \A i \in 0 .. encryptedData.n - 1 :
            /\ At(ivArray, i) = << Hex_stringify(encryptedData.trace.ivs[i + 1]) >>
            /\ At(ivArray, i)[1].chars = 2 * IvBytes
            /\ encryptedData.trace.passes[i + 1].layer = i
            /\ encryptedData.trace.passes[i + 1].iv = encryptedData.trace.ivs[i + 1]
       /\ (lastCall.op = "decrypt" /\ lastCall.variant = "Hybrid") =>
            \A k \in DOMAIN lastCall.passes :
              lastCall.passes[k].layer < encryptedData.n => lastCall.passes[k].sameIv

\* three layers were encrypted and a decrypt call went through all three,
\* from layer 2 down to layer 0
C29_Witness ==
  /\ HybridEncrypted
  /\ encryptedData.n = 3
  /\ lastCall.op = "decrypt"
  /\ lastCall.variant = "Hybrid"
  /\ [k \in DOMAIN lastCall.passes |-> lastCall.passes[k].layer] = << 2, 1, 0 >>
  /\ \A k \in DOMAIN lastCall.passes : lastCall.passes[k].sameIv

Rank(resistance) ==
  CASE resistance = "Low" -> 0
    [] resistance = "Medium" -> 1
    [] resistance = "High" -> 2
    [] resistance = "Very High" -> 3

\* C30: every analysis that analyzeQuantumThreat returns has quantumResistance
\* 'Low' for quantumBits q < 128, 'Medium' for 128 <= q < 192, 'High' for
\* 192 <= q < 256 and 'Very High' for q >= 256; no smaller q gets a higher
\* class; there are at least two recommendations, and the experimental-
\* algorithm warning is among them, once and last, exactly when the label
\* contains 'Experimental'.
C30_QuantumResistance ==
  \A k \in DOMAIN analysis :
    LET a == analysis[k]
        q == a.quantumBits
        warnings == { j \in DOMAIN a.recommendations :
                        a.recommendations[j] = ExperimentalWarning }
        labelled == \E prefix \in 0 .. Len(a.algorithm) :
                      /\ prefix + Len(Experimental) <= Len(a.algorithm)
                      /\ \A j \in DOMAIN Experimental :
                           a.algorithm[prefix + j] = Experimental[j]
    IN /\ (a.quantumResistance = "Low") <=> (q < 128)
       /\ (a.quantumResistance = "Medium") <=> (128 <= q /\ q < 192)
       /\ (a.quantumResistance = "High") <=> (192 <= q /\ q < 256)
       /\ (a.quantumResistance = "Very High") <=> (q >= 256)
       /\ \A smaller \in QuantumBitCounts :
            smaller <= q =>
              Rank(determineQuantumResistance(smaller)) <= Rank(a.quantumResistance)
       /\ Len(a.recommendations) >= 2
       /\ labelled => warnings = {Len(a.recommendations)}
       /\ ~ labelled => warnings = {}

\* an experimental label was analysed at exactly 128 quantum bits
C30_Witness ==
  /\ Len(analysis) = 1
  /\ analysis[1].algorithm = QES512_label
  /\ analysis[1].quantumBits = 128
  /\ analysis[1].quantumResistance = "Medium"
  /\ Len(analysis[1].recommendations) = 3

====
